---- MODULE Spec2Model ----
(***************************************************************************)
(* Retrieval and multi-hop deep-search subsystem of PDFusion:              *)
(*   rag/deep_search.py    DeepSearchEngine, SearchPath, PaperResult       *)
(*   rag/academic_apis.py  AsyncRateLimiter, AcademicAPIManager            *)
(*                                                                         *)
(*   rag/paper_cache.py    PaperCache                                      *)
(*   rag/citation_graph.py CitationGraph                                   *)
(*                                                                         *)
(* The specifications that share the module:                              *)
(*   Spec         one deep_search invocation on a DeepSearchEngine         *)
(*   SpecSelect   _select_diverse_papers applied to a score-sorted list    *)
(*   SpecLimiter  tasks entering `async with limiter` on one limiter       *)
(*   SpecClients  the provider clients and AcademicAPIManager              *)
(*   SpecCache    operations on one PaperCache                             *)
(*   SpecGraph    operations on one CitationGraph                          *)
(*   SpecPaths    path and component queries on a CitationGraph             *)
(*   SpecMerge    the merge of the two hybrid-search answers                *)
(*   SpecRerank   the re-ranking of merged results                          *)
(*   SpecRag      one question answered by the retrieval chain              *)
(*   SpecCacheRace   PaperCache.get and set of concurrent connections       *)
(*   SpecInterleave  two deep_search invocations on one engine              *)
(*   SpecNested   tasks entering one limiter inside its own scope           *)
(***************************************************************************)
EXTENDS Integers, Sequences, FiniteSets, TLC

VARIABLES
    \* ---- DeepSearchEngine / deep_search locals (Spec) ----
    settings,          \* DeepSearchSettings of the engine
    manager,           \* which search_all signature the injected manager has
    args,              \* arguments of the deep_search call
    pc,                \* position inside deep_search
    max_hops,          \* local max_hops after line 221
    max_papers_per_hop,\* local max_papers_per_hop after line 222
    visited_papers,    \* self.visited_papers
    search_path,       \* SearchPath: [hops, local_papers]
    all_papers,        \* local all_papers
    result,            \* the DeepSearchResult returned (<<>> while none)
    trace,             \* stages entered so far, in order
    raised,            \* stages in which an exception was raised
    calls,             \* manager calls issued: <<method, paper_id>>
    reported,          \* progress values handed to the callback
    \* ---- _select_diverse_papers (SpecSelect) ----
    sel_papers, sel_max, sel_out, sel_pc,
    \* ---- AsyncRateLimiter (SpecLimiter) ----
    requests_per_second, min_interval, last_request, lock, waiters,
    now, tpc, wake_at, done_at, order,
    \* ---- provider clients and AcademicAPIManager (SpecClients) ----
    api_key,           \* api_key of the clients that take one
    api_pc,            \* "idle", "gathering" (inside asyncio.gather), "returned"
    api_call,          \* the operation in progress or last returned
    api_tasks,         \* the searches asyncio.gather runs, one per client
    api_result,        \* what the operation returned
    api_raised,        \* whether the operation raised to its caller
    api_log,           \* limiter entries and HTTP requests of the operation,
                       \* client by client
    \* ---- PaperCache (SpecCache) ----
    ttl_days,          \* self.ttl_days
    store,             \* rows of table papers
    clock,             \* datetime.now()
    cache_log,         \* the operations performed, with what they returned
    getting,           \* the get() calls between their SELECT and their DELETE
    \* ---- CitationGraph (SpecGraph) ----
    nodes,             \* self.nodes: paper_id -> PaperNode
    graph,             \* self.graph: the DiGraph
    g_visited,         \* self.visited of the graph
    graph_ret,         \* the last operation and what it returned
    \* ---- EnhancedRAGChain (SpecRag, SpecMerge, SpecRerank) ----
    rag,               \* one answer_question call: its arguments, position,
                       \* locals, the calls it made and what it returned
    fn                 \* a function of the chain, its arguments and its value

dsVars  == <<settings, manager, args, pc, max_hops, max_papers_per_hop,
             visited_papers, search_path, all_papers, result, trace,
             raised, calls, reported>>
selVars == <<sel_papers, sel_max, sel_out, sel_pc>>
rlVars  == <<requests_per_second, min_interval, last_request, lock, waiters,
             now, tpc, wake_at, done_at, order>>
apiVars == <<api_key, api_pc, api_call, api_tasks, api_result, api_raised,
             api_log>>
cacheVars == <<ttl_days, store, clock, cache_log, getting>>
graphVars == <<nodes, graph, g_visited, graph_ret>>
ragVars == <<rag, fn>>
vars    == <<dsVars, selVars, rlVars, apiVars, cacheVars, graphVars, ragVars>>

----------------------------------------------------------------------------
(* Bounds of the model *)

MaxKey      == 2   \* provider-side ids are 1..MaxKey
MaxResults  == 2   \* longest list one manager call returns
MaxLocal    == 1   \* longest list the vector store returns
MaxCitations == 1  \* longest list one citation call returns
MaxCand     == 4   \* longest candidate list handed to _select_diverse_papers
MaxBudget   == 2   \* largest max_papers_per_hop
NumTasks    == 3   \* tasks entering the rate limiter
MaxTime     == 8   \* last clock tick
MaxRate     == 2   \* largest requests_per_second
MaxItems    == 2   \* most records in one response body
DayTicks    == 2   \* ticks of the cache clock in one day

(* Program constants *)
CurrentYear == 2026      \* datetime.now().year
BaseYear    == 2000      \* recency is measured from the year 2000
CitationCap == 100       \* citation counts are normalised by 100
MaxConcepts == 5         \* concepts[:5]
MinConceptLen == 3       \* len(c) > 3
RecentYearsDefault == 3  \* recent_years_threshold
DefaultMaxHops == 3      \* max_hops

----------------------------------------------------------------------------
(* Generic helpers *)

Range(s) == { s[i] : i \in DOMAIN s }

Min(a, b) == IF a < b THEN a ELSE b

SeqsUpTo(S, n) == UNION { [1..k -> S] : k \in 0..n }

Take(s, n) == SubSeq(s, 1, Min(n, Len(s)))

RECURSIVE SumLen(_)
SumLen(s) == IF s = <<>> THEN 0 ELSE Len(Head(s).papers) + SumLen(Tail(s))

RECURSIVE Concat(_)
Concat(s) == IF s = <<>> THEN <<>> ELSE Head(s).papers \o Concat(Tail(s))

Ids(ps) == { ps[i].paper_id : i \in DOMAIN ps }

NoDupIds(ps) == \A i, j \in DOMAIN ps : i # j => ps[i].paper_id # ps[j].paper_id

----------------------------------------------------------------------------
(* PaperResult and the ids the clients build *)

ApiSources == {"pubmed", "semantic_scholar", "core"}

\* f"pubmed_{pmid}", f"s2_{paper_id}", f"core_{core_id}", f"local_{document_id}"
Prefix(source) ==
    CASE source = "pubmed"           -> "pubmed_"
      [] source = "semantic_scholar" -> "s2_"
      [] source = "core"             -> "core_"

PaperId(source, key) == <<Prefix(source), key>>

Titles == {"Quantum Computing"}
\* the year a provider has on record for a paper: the paper with the last key
\* is older than the recency window, the others are of this year
PublishedIn(key) == IF key = MaxKey THEN CurrentYear - RecentYearsDefault - 1 ELSE CurrentYear

Years == { PublishedIn(k) : k \in 1..MaxKey }
CitationCounts == {0}

\* words of the lower-cased title + abstract
TextWords(title) ==
    CASE title = "Quantum Computing" -> {"quantum", "computing"}
      [] OTHER -> {}

PaperResult(source, key, title, year, cc) ==
    [paper_id |-> PaperId(source, key), source |-> source, title |-> title,
     year |-> year, citation_count |-> cc, relevance_score |-> 0]

\* the providers with a citation endpoint in AcademicAPIManager.get_citations
CitedSources == {"pubmed", "semantic_scholar"}

\* papers as the provider clients parse them
ApiPapers ==
    { PaperResult(s, k, t, PublishedIn(k), c) :
        s \in CitedSources, k \in 1..MaxKey, t \in Titles, c \in CitationCounts }

\* a local id that takes over the provider id of the ingested paper
LocalPaperIdUnprefixed(document_id) == <<"s2_", document_id>>

\* paper_id=f"local_{document_id}"
LocalPaperId(document_id) == <<"local_", document_id>>

\* the PaperResult _search_local_knowledge builds from one chunk
LocalPaper(chunk) ==
    [paper_id |-> LocalPaperId(chunk.document_id), source |-> "local_chromadb",
     title |-> chunk.title, year |-> 0, citation_count |-> 0,
     relevance_score |-> 0]

\* chunks the vector store can return
Chunks == { [document_id |-> d, title |-> t] : d \in 1..MaxLocal, t \in Titles }

----------------------------------------------------------------------------
(* _extract_key_concepts: question words that are no stop words and longer
   than three characters, at most five of them *)

Questions == { <<"what", "is", "quantum", "computing">> }

WordLen(w) ==
    CASE w = "quantum" -> 7 [] w = "computing" -> 9 [] w = "what" -> 4
      [] w = "why" -> 3 [] w = "is" -> 2 [] w = "ai" -> 2 [] OTHER -> 0

stop_words == {"what", "how", "why", "when", "where", "is", "are", "the", "a", "an"}

IsConcept(c) == c \notin stop_words /\ WordLen(c) > MinConceptLen

ExtractKeyConcepts(question) == Take(SelectSeq(question, IsConcept), MaxConcepts)

----------------------------------------------------------------------------
(* _score_papers: relevance = 0.4 keyword + 0.3 citations + 0.3 recency,
   kept exact as an integer in units of 1/(10 * 60 * 100 * (CurrentYear-2000));
   then a stable sort by descending score *)

YearSpan == CurrentYear - BaseYear

ConceptUnit == 3 * 4 * 5    \* lcm(1..5): keyword_matches / len(key_concepts) stays integral

KeywordScore(p, key_concepts) ==
    IF key_concepts = <<>> THEN 0
    ELSE LET m == Cardinality({ i \in DOMAIN key_concepts :
                                  key_concepts[i] \in TextWords(p.title) })
         IN  Min((m * ConceptUnit) \div Len(key_concepts), ConceptUnit)

CitationScore(p) == Min(p.citation_count, CitationCap)

RecencyScore(p) == IF p.year > BaseYear THEN Min(p.year - BaseYear, YearSpan) ELSE 0

Relevance(p, key_concepts) ==
      4 * KeywordScore(p, key_concepts) * CitationCap * YearSpan
    + 3 * CitationScore(p) * ConceptUnit * YearSpan
    + 3 * RecencyScore(p) * ConceptUnit * CitationCap

\* position at which list.sort(reverse=True) keeps p: after every paper whose
\* score is at least p's (stable)
RECURSIVE InsertByScore(_, _)
InsertByScore(sorted, p) ==
    IF sorted = <<>> THEN <<p>>
    ELSE IF Head(sorted).relevance_score >= p.relevance_score
         THEN <<Head(sorted)>> \o InsertByScore(Tail(sorted), p)
         ELSE <<p>> \o sorted

RECURSIVE SortByScore(_)
SortByScore(papers) ==
    IF papers = <<>> THEN <<>>
    ELSE InsertByScore(SortByScore(SubSeq(papers, 1, Len(papers) - 1)),
                       papers[Len(papers)])

ScorePapers(papers, key_concepts) ==
    SortByScore([ i \in DOMAIN papers |->
        [papers[i] EXCEPT !.relevance_score = Relevance(papers[i], key_concepts)] ])

IsSortedByScore(papers) ==
    \A i, j \in DOMAIN papers :
        i < j => papers[i].relevance_score >= papers[j].relevance_score

----------------------------------------------------------------------------
(* _select_diverse_papers *)

\* a first pass that selects nothing
FirstPassNone(papers, max_papers, selected, sources_used) == selected

\* first pass: one from each source
RECURSIVE FirstPass(_, _, _, _)
FirstPass(papers, max_papers, selected, sources_used) ==
    IF papers = <<>> \/ Len(selected) >= max_papers THEN selected
    ELSE LET paper == Head(papers) IN
         IF paper.source \notin sources_used
         THEN FirstPass(Tail(papers), max_papers, Append(selected, paper),
                        sources_used \cup {paper.source})
         ELSE FirstPass(Tail(papers), max_papers, selected, sources_used)

\* second pass: fill remaining slots by relevance; `paper not in selected`
\* compares the dataclass field by field
RECURSIVE SecondPass(_, _, _)
SecondPass(papers, max_papers, selected) ==
    IF papers = <<>> \/ Len(selected) >= max_papers THEN selected
    ELSE LET paper == Head(papers) IN
         IF paper \notin Range(selected)
         THEN SecondPass(Tail(papers), max_papers, Append(selected, paper))
         ELSE SecondPass(Tail(papers), max_papers, selected)

\* a selection with no budget: every candidate in both passes
SelectAllPapers(papers, max_papers) ==
    SecondPass(papers, Len(papers), FirstPass(papers, Len(papers), <<>>, {}))

\* _select_diverse_papers, lines 591-617
SelectDiversePapers(papers, max_papers) ==
    Take(SecondPass(papers, max_papers,
                    FirstPass(papers, max_papers, <<>>, {})), max_papers)

\* _llm_select_papers: score with no concepts and keep the first max_select
LlmSelectPapers(papers, max_select) == Take(ScorePapers(papers, <<>>), max_select)

----------------------------------------------------------------------------
(* DeepSearchEngine.deep_search *)

ManagerKinds == {"max_results", "AcademicAPIManager"}

SettingsSet ==
    [max_hops : {DefaultMaxHops}, max_papers_per_hop : {MaxBudget},
     follow_citations : BOOLEAN, follow_cited_by : BOOLEAN,
     recent_papers_only : BOOLEAN, recent_years_threshold : {RecentYearsDefault}]

\* an Optional[int] argument: <<>> is None, <<n>> is n
OptInt(S) == {<<>>} \cup { <<n>> : n \in S }

\* `arg or default`: None and 0 are both falsy
OrDefault(arg, default) == IF arg = <<>> \/ arg[1] = 0 THEN default ELSE arg[1]

ArgsSet ==
    [question : Questions, max_hops : OptInt(0..(DefaultMaxHops - 1)),
     max_papers_per_hop : OptInt(1..(MaxBudget - 1)), progress_callback : BOOLEAN]

EmptyPath == [hops |-> <<>>, local_papers |-> <<>>]

Hop0Papers == search_path.hops[1].papers

\* the checkpoints of one stage at which the callback can raise: 0 is "at none"
CallbackRaises(n) == IF args.progress_callback THEN 0..n ELSE {0}

Report(values) == IF args.progress_callback THEN reported \o values ELSE reported

\* an exception leaves deep_search through `except Exception: raise`
Propagate(stage) ==
    /\ pc' = "raised"
    /\ raised' = raised \cup {stage}
    /\ result' = <<>>

SearchHop(n, papers) ==
    [hop_number |-> n, papers |-> papers,
     followed_from |-> IF n = 0 THEN <<>>
                       ELSE [ i \in 1..Min(3, Len(Hop0Papers)) |-> Hop0Papers[i].paper_id ]]

\* hop 2 placed before hop 1
StageAfterSwapped(stage) ==
    CASE stage = "local_search"       -> "concept_extraction"
      [] stage = "concept_extraction" -> "hop0"
      [] stage = "hop0"               -> "hop2"
      [] stage = "hop2"               -> "hop1"
      [] stage = "hop1"               -> "synthesis"
      [] stage = "synthesis"          -> "done"

\* the order of the blocks of deep_search
StageAfter(stage) ==
    CASE stage = "local_search"       -> "concept_extraction"
      [] stage = "concept_extraction" -> "hop0"
      [] stage = "hop0"               -> "hop1"
      [] stage = "hop1"               -> "hop2"
      [] stage = "hop2"               -> "synthesis"
      [] stage = "synthesis"          -> "done"

\* lines 221-227: the call binds its locals and clears the visited set
Call ==
    /\ pc \in {"idle", "done", "raised"}
    /\ UNCHANGED <<selVars, rlVars, apiVars, cacheVars, graphVars, ragVars>>
    /\ \E a \in ArgsSet :
         /\ args' = a
         /\ max_hops' = OrDefault(a.max_hops, settings.max_hops)
         /\ max_papers_per_hop' = OrDefault(a.max_papers_per_hop, settings.max_papers_per_hop)
    /\ search_path' = EmptyPath
    /\ all_papers' = <<>>
    /\ visited_papers' = {}
    /\ result' = <<>>
    /\ trace' = <<>>
    /\ raised' = {}
    /\ calls' = <<>>
    /\ reported' = <<>>
    /\ pc' = "local_search"
    /\ UNCHANGED <<settings, manager>>

\* lines 230-240: progress 5, then _search_local_knowledge (which catches its
\* own exceptions and returns [])
LocalSearch ==
    /\ pc = "local_search"
    /\ UNCHANGED <<selVars, rlVars, apiVars, cacheVars, graphVars, ragVars>>
    /\ trace' = Append(trace, "LOCAL_SEARCH")
    /\ reported' = Report(<<5>>)
    /\ \E cb \in CallbackRaises(1) :
         IF cb = 1
         THEN /\ Propagate("callback")
              /\ UNCHANGED search_path
         ELSE \E fails \in BOOLEAN, results \in SeqsUpTo(Chunks, MaxLocal) :
                /\ fails => results = <<>>
                /\ search_path' = [search_path EXCEPT !.local_papers =
                       @ \o [ i \in DOMAIN results |-> LocalPaper(results[i]) ]]
                /\ raised' = IF fails THEN raised \cup {"local_search"} ELSE raised
                /\ pc' = StageAfter(pc)
                /\ result' = result
    /\ UNCHANGED <<settings, manager, args, max_hops, max_papers_per_hop,
                   visited_papers, all_papers, calls>>

KeyConcepts == ExtractKeyConcepts(args.question)

\* lines 243-246
ConceptExtraction ==
    /\ pc = "concept_extraction"
    /\ UNCHANGED <<selVars, rlVars, apiVars, cacheVars, graphVars, ragVars>>
    /\ trace' = Append(trace, "CONCEPT_EXTRACTION")
    /\ pc' = StageAfter(pc)
    /\ UNCHANGED <<settings, manager, args, max_hops, max_papers_per_hop,
                   visited_papers, search_path, all_papers, result, raised,
                   calls, reported>>

\* what one manager call does: it raises, or returns a list of papers
CallOutcomes(n) ==
    { o \in [raises : BOOLEAN, papers : SeqsUpTo(ApiPapers, n)] :
        o.raises => o.papers = <<>> }

\* search_all(query, max_results=...): AcademicAPIManager names the parameter
\* max_results_per_source, so the keyword call is a TypeError there whatever
\* its providers hold for the query (found); a manager that takes the keyword
\* returns what it found, or raises
SearchAllOutcomes ==
    IF manager = "AcademicAPIManager"
    THEN { [raises |-> TRUE, papers |-> <<>>, found |-> f] :
             f \in SeqsUpTo(ApiPapers, MaxResults) }
    ELSE { [raises |-> o.raises, papers |-> o.papers, found |-> o.papers] :
             o \in CallOutcomes(MaxResults) }

\* f"{question} {' '.join(key_concepts)}"
Query(question, key_concepts) == question \o key_concepts

\* search_all(query, max_results=limit), what the manager holds for the query
\* and the papers the call handed back
SearchAllCall(query, limit, outcome) ==
    [method |-> "search_all", query |-> query, limit |-> limit,
     found |-> outcome.found, returned |-> outcome.papers]

\* get_citations / get_cited_by (paper.paper_id, paper.source)
ManagerCall(method, paper_id, source) ==
    [method |-> method, paper_id |-> paper_id, source |-> source]

\* lines 430-458, with the SearchHop of lines 261-266 and progress 15 and 33
Hop0 ==
    /\ pc = "hop0"
    /\ UNCHANGED <<selVars, rlVars, apiVars, cacheVars, graphVars, ragVars>>
    /\ trace' = Append(trace, "HOP0_BROAD")
    /\ \E cb \in CallbackRaises(2) :
         IF cb = 1
         THEN /\ Propagate("callback")
              /\ reported' = Report(<<15>>)
              /\ UNCHANGED <<visited_papers, search_path, all_papers, calls>>
         ELSE \E o \in SearchAllOutcomes :
                LET scored_papers == ScorePapers(o.papers, KeyConcepts)
                    selected == IF o.raises THEN <<>>
                                ELSE SelectDiversePapers(scored_papers, max_papers_per_hop)
                IN  /\ calls' = Append(calls,
                          SearchAllCall(Query(args.question, KeyConcepts),
                                        max_papers_per_hop * 2, o))
                    /\ visited_papers' = visited_papers \cup Ids(selected)
                    /\ search_path' = [search_path EXCEPT !.hops =
                                           Append(@, [hop_number |-> 0, papers |-> selected,
                                                      followed_from |-> <<>>])]
                    /\ all_papers' = all_papers \o selected
                    /\ reported' = Report(<<15, 33>>)
                    /\ IF cb = 2
                       THEN Propagate("callback")
                       ELSE /\ pc' = StageAfter(pc)
                            /\ raised' = IF o.raises THEN raised \cup {"hop0"} ELSE raised
                            /\ result' = result
    /\ UNCHANGED <<settings, manager, args, max_hops, max_papers_per_hop>>

\* the calls of one citation loop: one outcome per seed, the loop stops at the
\* first call that raises
FirstRaise(outs) ==
    IF \E i \in DOMAIN outs : outs[i].raises
    THEN CHOOSE i \in DOMAIN outs :
           outs[i].raises /\ \A j \in 1..(i - 1) : ~outs[j].raises
    ELSE 0

RECURSIVE Gathered(_)
Gathered(outs) ==
    IF outs = <<>> THEN <<>> ELSE Head(outs).papers \o Gathered(Tail(outs))

LoopCalls(method, seeds, outs) ==
    LET n == IF FirstRaise(outs) = 0 THEN Len(seeds) ELSE FirstRaise(outs)
    IN  [ i \in 1..n |-> ManagerCall(method, seeds[i].paper_id, seeds[i].source) ]

\* a filter that lets every candidate through
UnvisitedAll(papers, visited) == papers

\* [c for c in papers if c.paper_id not in self.visited_papers]
Unvisited(papers, visited) ==
    SelectSeq(papers, LAMBDA p : p.paper_id \notin visited)

\* lines 470-500: the selection of hop 1 from the gathered citations
Hop1Selection(all_citations) ==
    LET unvisited == Unvisited(all_citations, visited_papers)
    IN  IF unvisited = <<>> THEN <<>>
        ELSE LlmSelectPapers(unvisited, max_papers_per_hop)

Hop1Enabled == max_hops >= 2 /\ settings.follow_citations /\ Hop0Papers # <<>>

\* lines 277-304: hop 1 with progress 40 and 66
Hop1 ==
    /\ pc = "hop1"
    /\ UNCHANGED <<selVars, rlVars, apiVars, cacheVars, graphVars, ragVars>>
    /\ Hop1Enabled
    /\ trace' = Append(trace, "HOP1_BACKWARD")
    /\ \E cb \in CallbackRaises(2) :
         IF cb = 1
         THEN /\ Propagate("callback")
              /\ reported' = Report(<<40>>)
              /\ UNCHANGED <<visited_papers, search_path, all_papers, calls>>
         ELSE \E outs \in [DOMAIN Hop0Papers -> CallOutcomes(MaxCitations)] :
                LET fails == FirstRaise(outs) # 0
                    selected == IF fails THEN <<>> ELSE Hop1Selection(Gathered(outs))
                IN  /\ calls' = calls \o LoopCalls("get_citations", Hop0Papers, outs)
                    /\ visited_papers' = visited_papers \cup Ids(selected)
                    /\ search_path' = [search_path EXCEPT !.hops =
                                           Append(@, SearchHop(1, selected))]
                    /\ all_papers' = all_papers \o selected
                    /\ reported' = Report(<<40, 66>>)
                    /\ IF cb = 2
                       THEN Propagate("callback")
                       ELSE /\ pc' = StageAfter(pc)
                            /\ raised' = IF fails THEN raised \cup {"hop1"} ELSE raised
                            /\ result' = result
    /\ UNCHANGED <<settings, manager, args, max_hops, max_papers_per_hop>>

\* line 277 false: hop 1 is passed over
SkipHop1 ==
    /\ pc = "hop1"
    /\ UNCHANGED <<selVars, rlVars, apiVars, cacheVars, graphVars, ragVars>>
    /\ ~Hop1Enabled
    /\ pc' = StageAfter(pc)
    /\ UNCHANGED <<settings, manager, args, max_hops, max_papers_per_hop,
                   visited_papers, search_path, all_papers, result, trace,
                   raised, calls, reported>>

\* lines 526-528
IsRecent(p) == p.year >= CurrentYear - settings.recent_years_threshold

RecentOnly(papers) ==
    IF settings.recent_papers_only THEN SelectSeq(papers, IsRecent) ELSE papers

\* lines 516-551: the selection of hop 2 from the gathered cited-by papers
Hop2Selection(all_cited_by) ==
    LET unvisited == Unvisited(RecentOnly(all_cited_by), visited_papers)
    IN  IF unvisited = <<>> THEN <<>>
        ELSE LlmSelectPapers(unvisited, max_papers_per_hop)

\* hop 2 gated on the hop recorded just before it
Hop2EnabledAfterPrior ==
    /\ max_hops >= 3 /\ settings.follow_cited_by
    /\ search_path.hops[Len(search_path.hops)].papers # <<>>

Hop2Enabled == max_hops >= 3 /\ settings.follow_cited_by /\ Hop0Papers # <<>>

\* line 318: _hop_2_forward_citations(question, hop0_papers, max_papers_per_hop)
Hop2Seeds == Hop0Papers

\* lines 307-334: hop 2 with progress 70 and 85
Hop2 ==
    /\ pc = "hop2"
    /\ UNCHANGED <<selVars, rlVars, apiVars, cacheVars, graphVars, ragVars>>
    /\ Hop2Enabled
    /\ trace' = Append(trace, "HOP2_FORWARD")
    /\ \E cb \in CallbackRaises(2) :
         IF cb = 1
         THEN /\ Propagate("callback")
              /\ reported' = Report(<<70>>)
              /\ UNCHANGED <<visited_papers, search_path, all_papers, calls>>
         ELSE \E outs \in [DOMAIN Hop2Seeds -> CallOutcomes(MaxCitations)] :
                LET fails == FirstRaise(outs) # 0
                    selected == IF fails THEN <<>> ELSE Hop2Selection(Gathered(outs))
                IN  /\ calls' = calls \o LoopCalls("get_cited_by", Hop2Seeds, outs)
                    /\ visited_papers' = visited_papers \cup Ids(selected)
                    /\ search_path' = [search_path EXCEPT !.hops =
                                           Append(@, SearchHop(2, selected))]
                    /\ all_papers' = all_papers \o selected
                    /\ reported' = Report(<<70, 85>>)
                    /\ IF cb = 2
                       THEN Propagate("callback")
                       ELSE /\ pc' = StageAfter(pc)
                            /\ raised' = IF fails THEN raised \cup {"hop2"} ELSE raised
                            /\ result' = result
    /\ UNCHANGED <<settings, manager, args, max_hops, max_papers_per_hop>>

\* line 307 false: hop 2 is passed over
SkipHop2 ==
    /\ pc = "hop2"
    /\ UNCHANGED <<selVars, rlVars, apiVars, cacheVars, graphVars, ragVars>>
    /\ ~Hop2Enabled
    /\ pc' = StageAfter(pc)
    /\ UNCHANGED <<settings, manager, args, max_hops, max_papers_per_hop,
                   visited_papers, search_path, all_papers, result, trace,
                   raised, calls, reported>>

\* SearchPath.total_papers
TotalPapers(path) == Len(path.local_papers) + SumLen(path.hops)

\* the counted lines of the answer text
Answer(papers, local_papers, path) ==
    <<  <<"Based on analysis of", Len(papers)>>, <<"hops", Len(path.hops)>>,
        <<"Local knowledge", Len(local_papers)>> >>
    \o (IF Len(path.hops) > 0
        THEN << <<"Initial papers", Len(path.hops[1].papers)>> >> ELSE <<>>)
    \o (IF Len(path.hops) > 1
        THEN << <<"Foundational work", Len(path.hops[2].papers)>> >> ELSE <<>>)
    \o (IF Len(path.hops) > 2
        THEN << <<"Recent developments", Len(path.hops[3].papers)>> >> ELSE <<>>)

\* totals that leave the local papers out
SynthesizeResultsNoLocal(papers, local_papers, path) ==
    [question |-> args.question,
     answer |-> Answer(papers, local_papers, path),
     papers |-> papers,
     local_papers |-> local_papers,
     search_path |-> path,
     total_papers |-> Len(papers),
     total_hops |-> Len(path.hops)]

\* lines 634-675
SynthesizeResults(papers, local_papers, path) ==
    [question |-> args.question,
     answer |-> Answer(papers, local_papers, path),
     papers |-> papers,
     local_papers |-> local_papers,
     search_path |-> path,
     total_papers |-> Len(papers) + Len(local_papers),
     total_hops |-> Len(path.hops)]

\* lines 337-359: progress 90, _synthesize_results, progress 100, return
Synthesis ==
    /\ pc = "synthesis"
    /\ UNCHANGED <<selVars, rlVars, apiVars, cacheVars, graphVars, ragVars>>
    /\ \E cb \in CallbackRaises(2) :
         IF cb = 1
         THEN /\ Propagate("callback")
              /\ reported' = Report(<<90>>)
              /\ trace' = Append(trace, "SYNTHESIS")
         ELSE /\ reported' = Report(<<90, 100>>)
              /\ IF cb = 2
                 THEN /\ Propagate("callback")
                      /\ trace' = Append(trace, "SYNTHESIS")
                 ELSE /\ result' = << SynthesizeResults(all_papers,
                                         search_path.local_papers, search_path) >>
                      /\ trace' = trace \o <<"SYNTHESIS", "DONE">>
                      /\ pc' = StageAfter(pc)
                      /\ raised' = raised
    /\ UNCHANGED <<settings, manager, args, max_hops, max_papers_per_hop,
                   visited_papers, search_path, all_papers, calls>>

----------------------------------------------------------------------------
(* Spec: one engine, deep_search called on it *)

selIdle == /\ sel_papers = <<>> /\ sel_max = 0 /\ sel_out = <<>> /\ sel_pc = "off"

rlIdle ==
    /\ requests_per_second = 0 /\ min_interval = 0 /\ last_request = 0
    /\ lock = 0 /\ waiters = <<>> /\ now = 0
    /\ tpc = <<>> /\ wake_at = <<>> /\ done_at = <<>> /\ order = <<>>

apiIdle ==
    /\ api_key = <<>> /\ api_pc = "off" /\ api_call = <<>> /\ api_tasks = <<>>
    /\ api_result = <<>> /\ api_raised = FALSE /\ api_log = <<>>

cacheIdle == /\ ttl_days = 0 /\ store = {} /\ clock = 0 /\ cache_log = <<>>
             /\ getting = {}

graphIdle ==
    /\ nodes = <<>> /\ graph = <<>> /\ g_visited = {}
    /\ graph_ret = [op |-> "off"]

ragIdle == rag = [pc |-> "off"] /\ fn = [name |-> "off"]

otherIdle == apiIdle /\ cacheIdle /\ graphIdle /\ ragIdle

dsIdle ==
    /\ settings = <<>> /\ manager = "" /\ args = <<>> /\ pc = "off"
    /\ max_hops = 0 /\ max_papers_per_hop = 0 /\ visited_papers = {}
    /\ search_path = EmptyPath /\ all_papers = <<>> /\ result = <<>>
    /\ trace = <<>> /\ raised = {} /\ calls = <<>> /\ reported = <<>>

Init ==
    /\ settings \in SettingsSet
    /\ manager \in ManagerKinds
    /\ args = <<>>
    /\ pc = "idle"
    /\ max_hops = 0
    /\ max_papers_per_hop = 0
    /\ visited_papers = {}
    /\ search_path = EmptyPath
    /\ all_papers = <<>>
    /\ result = <<>>
    /\ trace = <<>>
    /\ raised = {}
    /\ calls = <<>>
    /\ reported = <<>>
    /\ selIdle
    /\ rlIdle
    /\ otherIdle

Next ==
    \/ Call
    \/ LocalSearch
    \/ ConceptExtraction
    \/ Hop0
    \/ Hop1
    \/ SkipHop1
    \/ Hop2
    \/ SkipHop2
    \/ Synthesis

Spec == Init /\ [][Next]_vars

----------------------------------------------------------------------------
(* Properties of deep_search, checked under Spec *)

Hops == search_path.hops

HopRan(n) == \E i \in DOMAIN Hops : Hops[i].hop_number = n

HopPapers(n) == Hops[CHOOSE i \in DOMAIN Hops : Hops[i].hop_number = n].papers

CallsOf(method) == { i \in DOMAIN calls : calls[i].method = method }

\* C1: within one deep_search invocation the paper_id sets of any two
\* different hops' selections are disjoint.
C1_HopsDisjoint ==
    \A i, j \in DOMAIN Hops :
        i # j => Ids(Hops[i].papers) \cap Ids(Hops[j].papers) = {}

\* a finished run with three hops, each of which selected something
C1_Witness ==
    /\ pc = "done" /\ Len(Hops) = 3
    /\ \A i \in DOMAIN Hops : Hops[i].papers # <<>>

\* C2: no hop's papers list contains the same paper_id twice.
C2_NoDuplicateInHop == \A i \in DOMAIN Hops : NoDupIds(Hops[i].papers)

\* C3: no paper of any hop's selection has the paper_id of a local-knowledge
\* paper, also when an API candidate has a local paper's title.
C3_LocalNeverReselected ==
    /\ \A i \in DOMAIN Hops :
          Ids(Hops[i].papers) \cap Ids(search_path.local_papers) = {}
    /\ result # <<>> =>
          Ids(result[1].papers) \cap Ids(result[1].local_papers) = {}

\* a returned result whose hops hold an API paper with the title and the
\* provider-side id of a local paper
C3_Witness ==
    /\ result # <<>>
    /\ \E i \in DOMAIN result[1].papers, j \in DOMAIN result[1].local_papers :
          /\ result[1].papers[i].title = result[1].local_papers[j].title
          /\ result[1].papers[i].paper_id[2] = result[1].local_papers[j].paper_id[2]

\* C4: deep_search returns no DeepSearchResult for a run in which some stage
\* raised an exception.
C4_NoResultAfterRaise == result # <<>> => raised = {}

StageRank(stage) ==
    CASE stage = "LOCAL_SEARCH"       -> 1
      [] stage = "CONCEPT_EXTRACTION" -> 2
      [] stage = "HOP0_BROAD"         -> 3
      [] stage = "HOP1_BACKWARD"      -> 4
      [] stage = "HOP2_FORWARD"       -> 5
      [] stage = "SYNTHESIS"          -> 6
      [] stage = "DONE"               -> 7

\* C5: the stages of a run are entered in the fixed order, each at most once;
\* the first three are never passed over, hop 1 starts only once hop 0 is
\* recorded, hop 2 and synthesis only after the hops before them, and DONE
\* only after synthesis.
C5_StagesInOrder ==
    /\ \A i, j \in DOMAIN trace : i < j => StageRank(trace[i]) < StageRank(trace[j])
    /\ \A i \in DOMAIN trace : i <= 3 => StageRank(trace[i]) = i
    /\ \A i \in DOMAIN trace :
          trace[i] \in {"HOP1_BACKWARD", "HOP2_FORWARD", "SYNTHESIS"} =>
              /\ Len(Hops) >= 1 /\ Hops[1].hop_number = 0
    /\ \A i \in DOMAIN trace :
          trace[i] \in {"HOP2_FORWARD", "SYNTHESIS"} =>
              \A j \in 1..(i - 1) : trace[j] = "HOP1_BACKWARD" => HopRan(1) \/ pc = "raised"
    /\ \A i \in DOMAIN trace :
          trace[i] = "DONE" => i > 1 /\ trace[i - 1] = "SYNTHESIS" /\ pc = "done"
    /\ pc = "done" => trace[Len(trace)] = "DONE"

\* a finished run that went through all seven stages
C5_Witness ==
    /\ pc = "done"
    /\ trace = <<"LOCAL_SEARCH", "CONCEPT_EXTRACTION", "HOP0_BROAD",
                 "HOP1_BACKWARD", "HOP2_FORWARD", "SYNTHESIS", "DONE">>

\* the hop recorded just before hop 2: hop 1 when it ran, else hop 0
PriorHopPapers == IF HopRan(1) THEN HopPapers(1) ELSE HopPapers(0)

Hop1Decided == pc \in {"hop2", "synthesis", "done"}
Hop2Decided == pc \in {"synthesis", "done"}

Hop1SkippedCleanly ==
    ~HopRan(1) => /\ CallsOf("get_citations") = {}
                  /\ "hop1" \notin raised
                  /\ \A i \in DOMAIN trace : trace[i] # "HOP1_BACKWARD"

Hop2SkippedCleanly ==
    ~HopRan(2) => /\ CallsOf("get_cited_by") = {}
                  /\ "hop2" \notin raised
                  /\ \A i \in DOMAIN trace : trace[i] # "HOP2_FORWARD"

\* C6 as stated: hop 1 (hop 2) is skipped, with no SearchHop, no citation call
\* and no error, exactly when its flag is off, max_hops < 2 (< 3), or the
\* prior hop yielded no seeds; otherwise it is executed and recorded.
C6_SkipOnPriorHop ==
    /\ Hop1Decided =>
         /\ HopRan(1) <=> (max_hops >= 2 /\ settings.follow_citations /\ HopPapers(0) # <<>>)
         /\ Hop1SkippedCleanly
    /\ Hop2Decided =>
         /\ HopRan(2) <=> (max_hops >= 3 /\ settings.follow_cited_by /\ PriorHopPapers # <<>>)
         /\ Hop2SkippedCleanly

\* C6 amended: both hops take their seeds from hop 0, so "the prior hop
\* yielded no seeds" is "hop 0 selected no papers" for hop 2 as well; max_hops
\* is the value after `max_hops or settings.max_hops`.
C6_SkipOnHop0 ==
    /\ Hop1Decided =>
         /\ HopRan(1) <=> (max_hops >= 2 /\ settings.follow_citations /\ HopPapers(0) # <<>>)
         /\ Hop1SkippedCleanly
    /\ Hop2Decided =>
         /\ HopRan(2) <=> (max_hops >= 3 /\ settings.follow_cited_by /\ HopPapers(0) # <<>>)
         /\ Hop2SkippedCleanly
    /\ max_hops = (IF pc = "idle" THEN 0
                   ELSE OrDefault(args.max_hops, settings.max_hops))

\* hop 1 ran and selected nothing, and hop 2 was executed all the same
C6_Witness ==
    /\ pc = "done" /\ HopRan(1) /\ HopPapers(1) = <<>> /\ HopRan(2)

\* C7: in every DeepSearchResult total_hops is the number of recorded hops,
\* total_papers the sum of the hop selection sizes plus the local papers (and
\* search_path.total_papers), and papers the hop selections concatenated in hop
\* order; deep_search(max_hops=1) over a manager returning 2 papers gives
\* total_hops = 1, hops[0].papers of length 2 and total_papers = 2 + locals.
C7_ResultTotals ==
    result # <<>> =>
        LET r == result[1] IN
        /\ r.total_hops = Len(Hops)
        /\ r.total_papers = SumLen(Hops) + Len(search_path.local_papers)
        /\ r.total_papers = TotalPapers(r.search_path)
        /\ r.search_path = search_path
        /\ r.papers = Concat(Hops)
        /\ (/\ args.max_hops = <<1>> /\ args.max_papers_per_hop = <<>>
            /\ Len(calls[1].returned) = 2
            /\ calls[1].returned[1] # calls[1].returned[2])
           => /\ r.total_hops = 1
              /\ Len(r.search_path.hops[1].papers) = 2
              /\ r.total_papers = 2 + Len(r.local_papers)

\* deep_search(max_hops=1) returned, search_all gave 2 papers and a local
\* paper was found
C7_Witness ==
    /\ result # <<>>
    /\ args.max_hops = <<1>> /\ args.max_papers_per_hop = <<>>
    /\ Len(calls[1].returned) = 2 /\ calls[1].returned[1] # calls[1].returned[2]
    /\ result[1].local_papers # <<>>
    /\ result[1].total_papers = 3

----------------------------------------------------------------------------
(* SpecSelect: _select_diverse_papers on a scored, score-sorted candidate list *)

SelYears == {BaseYear, CurrentYear}

\* candidates of every provider, scored as _score_papers scores them
SelCandidates ==
    { LET p == PaperResult(s, k, t, y, 0)
      IN  [p EXCEPT !.relevance_score = Relevance(p, <<>>)] :
        s \in ApiSources, k \in 1..MaxKey, t \in Titles, y \in SelYears }

InitSelect ==
    /\ \E n \in 0..MaxCand : sel_papers \in [1..n -> SelCandidates]
    /\ IsSortedByScore(sel_papers)
    /\ sel_max \in 1..MaxBudget
    /\ sel_out = <<>>
    /\ sel_pc = "ready"
    /\ dsIdle
    /\ rlIdle
    /\ otherIdle

Select ==
    /\ sel_pc = "ready"
    /\ UNCHANGED <<dsVars, rlVars, apiVars, cacheVars, graphVars, ragVars>>
    /\ sel_out' = SelectDiversePapers(sel_papers, sel_max)
    /\ sel_pc' = "selected"
    /\ UNCHANGED <<sel_papers, sel_max>>

NextSelect == Select

SpecSelect == InitSelect /\ [][NextSelect]_vars

Sources(ps) == { ps[i].source : i \in DOMAIN ps }

\* the first candidate of each source, in list order (what the first pass takes)
FirstOfSource(i) == \A j \in 1..(i - 1) : sel_papers[j].source # sel_papers[i].source

\* C8: the selection has min(B, number of distinct candidates) papers, all
\* candidates and no paper twice; with k <= B sources among the candidates it
\* holds a paper of every source; the slots left after the one-per-source
\* pass are filled in descending score order.
C8_DiverseSelection ==
    sel_pc = "selected" =>
        LET k == Cardinality(Sources(sel_papers))
            first == Min(k, sel_max)
        IN
        /\ Len(sel_out) = Min(sel_max, Cardinality(Range(sel_papers)))
        /\ Range(sel_out) \subseteq Range(sel_papers)
        /\ \A i, j \in DOMAIN sel_out : i # j => sel_out[i] # sel_out[j]
        /\ k <= sel_max => Sources(sel_out) = Sources(sel_papers)
        /\ \A i \in 1..first : \E j \in DOMAIN sel_papers :
               sel_papers[j] = sel_out[i] /\ FirstOfSource(j)
        /\ \A i, j \in (first + 1)..Len(sel_out) :
               i < j => sel_out[i].relevance_score >= sel_out[j].relevance_score
        /\ \A i \in (first + 1)..Len(sel_out) :
               \A c \in Range(sel_papers) \ Range(sel_out) :
                   sel_out[i].relevance_score >= c.relevance_score

\* the sel_max best-scored candidates all share one source, a paper of
\* another source scores strictly lower, and it is selected all the same
C8_Witness ==
    /\ sel_pc = "selected"
    /\ Len(sel_papers) > sel_max /\ sel_max >= 2
    /\ Cardinality(Sources(sel_papers)) = sel_max
    /\ \A i \in 1..sel_max : sel_papers[i].source = sel_papers[1].source
    /\ \A i \in 1..sel_max : \A j \in 1..sel_max : i # j => sel_papers[i] # sel_papers[j]
    /\ \E p \in Range(sel_out) :
          /\ p.source # sel_papers[1].source
          /\ p.relevance_score < sel_papers[sel_max].relevance_score

----------------------------------------------------------------------------
(* SpecLimiter: AsyncRateLimiter, NumTasks tasks entering `async with limiter` *)

\* the clock counts ticks of 1/MaxRate second, so that 1/r is a whole number
\* of ticks for every rate of Rates
TicksPerSecond == MaxRate

Rates == {-1, 0, 1, MaxRate}

Tasks == 1..NumTasks

\* a non-positive rate taken as one request per second
MinIntervalClamped(rate) ==
    IF rate > 0 THEN TicksPerSecond \div rate ELSE TicksPerSecond

\* 1.0 / requests_per_second if requests_per_second > 0 else 0
MinInterval(rate) == IF rate > 0 THEN TicksPerSecond \div rate ELSE 0

\* an entry that never waits
WaitTimeNone(time_now, last, interval) == 0

\* lines 37-42: how long __aenter__ sleeps
WaitTime(time_now, last, interval) ==
    IF time_now - last < interval THEN interval - (time_now - last) ELSE 0

\* a limiter that keeps the mutex until the protected scope is left
LockHeldInScope(t) == t

\* lines 36-44: `async with self.lock` ends with __aenter__, and __aexit__
\* releases nothing: the mutex is free once the entry is stamped
LockAfterEntry(t) == 0

InitLimiter ==
    /\ requests_per_second \in Rates
    /\ min_interval = MinInterval(requests_per_second)
    /\ last_request = 0
    /\ lock = 0
    /\ waiters = <<>>
    /\ now = TicksPerSecond
    /\ tpc = [t \in Tasks |-> "start"]
    /\ wake_at = [t \in Tasks |-> 0]
    /\ done_at = [t \in Tasks |-> 0]
    /\ order = <<>>
    /\ dsIdle
    /\ selIdle
    /\ otherIdle

\* time.time() moves on
Tick ==
    /\ now < MaxTime
    /\ UNCHANGED <<dsVars, selVars, apiVars, cacheVars, graphVars, ragVars>>
    /\ now' = now + 1
    /\ UNCHANGED <<requests_per_second, min_interval, last_request, lock,
                   waiters, tpc, wake_at, done_at, order>>

\* `async with self.lock`: taken at once when free with nobody queued,
\* else the task queues (asyncio.Lock wakes its waiters first-in first-out)
EnterLock(t) ==
    /\ tpc[t] = "start"
    /\ UNCHANGED <<dsVars, selVars, apiVars, cacheVars, graphVars, ragVars>>
    /\ IF lock = 0 /\ waiters = <<>>
       THEN /\ lock' = t
            /\ tpc' = [tpc EXCEPT ![t] = "locked"]
            /\ UNCHANGED waiters
       ELSE /\ waiters' = Append(waiters, t)
            /\ tpc' = [tpc EXCEPT ![t] = "queued"]
            /\ UNCHANGED lock
    /\ UNCHANGED <<requests_per_second, min_interval, last_request, now,
                   wake_at, done_at, order>>

\* the first queued task gets the released lock
AcquireLock(t) ==
    /\ tpc[t] = "queued"
    /\ UNCHANGED <<dsVars, selVars, apiVars, cacheVars, graphVars, ragVars>>
    /\ lock = 0
    /\ waiters # <<>> /\ Head(waiters) = t
    /\ lock' = t
    /\ waiters' = Tail(waiters)
    /\ tpc' = [tpc EXCEPT ![t] = "locked"]
    /\ UNCHANGED <<requests_per_second, min_interval, last_request, now,
                   wake_at, done_at, order>>

\* lines 37-44 with the lock held: either sleep, or stamp last_request and
\* leave the lock
CheckInterval(t) ==
    /\ tpc[t] = "locked"
    /\ UNCHANGED <<dsVars, selVars, apiVars, cacheVars, graphVars, ragVars>>
    /\ LET wait_time == WaitTime(now, last_request, min_interval) IN
       IF wait_time > 0
       THEN /\ tpc' = [tpc EXCEPT ![t] = "sleeping"]
            /\ wake_at' = [wake_at EXCEPT ![t] = now + wait_time]
            /\ UNCHANGED <<last_request, lock, done_at, order>>
       ELSE /\ last_request' = now
            /\ lock' = LockAfterEntry(t)
            /\ tpc' = [tpc EXCEPT ![t] = "entered"]
            /\ done_at' = [done_at EXCEPT ![t] = now]
            /\ order' = Append(order, t)
            /\ UNCHANGED wake_at
    /\ UNCHANGED <<requests_per_second, min_interval, waiters, now>>

\* asyncio.sleep(wait_time) is over: stamp last_request and leave the lock
WakeUp(t) ==
    /\ tpc[t] = "sleeping"
    /\ UNCHANGED <<dsVars, selVars, apiVars, cacheVars, graphVars, ragVars>>
    /\ now >= wake_at[t]
    /\ last_request' = now
    /\ lock' = LockAfterEntry(t)
    /\ tpc' = [tpc EXCEPT ![t] = "entered"]
    /\ done_at' = [done_at EXCEPT ![t] = now]
    /\ order' = Append(order, t)
    /\ UNCHANGED <<requests_per_second, min_interval, waiters, now, wake_at>>

NextLimiter ==
    \/ Tick
    \/ \E t \in Tasks : EnterLock(t)
    \/ \E t \in Tasks : AcquireLock(t)
    \/ \E t \in Tasks : CheckInterval(t)
    \/ \E t \in Tasks : WakeUp(t)

SpecLimiter == InitLimiter /\ [][NextLimiter]_vars

InTimingSection == { t \in Tasks : tpc[t] \in {"locked", "sleeping"} }

\* C9: with requests_per_second = r > 0 the timing section holds one task at
\* a time, two successive entries complete at least 1/r apart, and the 1st and
\* the Nth completion are at least (N-1)/r apart.
C9_MinimumSpacing ==
    requests_per_second > 0 =>
        /\ Cardinality(InTimingSection) <= 1
        /\ InTimingSection = (IF lock = 0 THEN {} ELSE {lock})
        /\ \A i \in 1..(Len(order) - 1) :
              requests_per_second * (done_at[order[i + 1]] - done_at[order[i]])
                  >= TicksPerSecond
        /\ \A n \in DOMAIN order :
              requests_per_second * (done_at[order[n]] - done_at[order[1]])
                  >= (n - 1) * TicksPerSecond

\* every task has entered a limiter of positive rate, the others having
\* queued behind the first
C9_Witness ==
    /\ requests_per_second > 0
    /\ Len(order) = NumTasks
    /\ \E t \in Tasks : wake_at[t] > 0

\* C10: with requests_per_second <= 0 the limiter is built with
\* min_interval = 0 and no entry ever sleeps.
C10_Unlimited ==
    requests_per_second <= 0 =>
        /\ min_interval = 0
        /\ \A t \in Tasks : tpc[t] # "sleeping" /\ wake_at[t] = 0

\* every task has entered an unlimited limiter, all within one tick
C10_Witness ==
    /\ requests_per_second <= 0
    /\ Len(order) = NumTasks
    /\ \A t \in Tasks : done_at[t] = done_at[order[1]]

----------------------------------------------------------------------------
(* SpecClients: PubMedAPI, SemanticScholarAPI, COREAPI, AcademicAPIManager *)

\* what one HTTP exchange comes to:
\*   "transport"  session.get raises (connection error, timeout)
\*   "status"     resp.status != 200
\*   "malformed"  resp.json() / xmltodict.parse raises, or the body does not
\*                have the shape the client reads
\*   "ok"         a body holding a list of records
\*   "cancelled"  the awaiting task is cancelled: asyncio.CancelledError,
\*                which `except Exception` does not catch
FailureKinds == {"transport", "status", "malformed"}

\* a record of a body: a provider key, an object without its id field
\* (the parser falls back on 'unknown'), or something that is not an object
UnknownKey == 0
JunkRecord == -1
RecordKeys == {1, 2}

Records == {JunkRecord, UnknownKey} \cup RecordKeys

Bodies == SeqsUpTo(Records, MaxItems)

Responses ==
    [kind : FailureKinds \cup {"cancelled"}, items : {<<>>}]
        \cup [kind : {"ok"}, items : Bodies]

\* _parse_article / _parse_paper: None for what is not an object, defaults
\* for the fields an object lacks
ParsePaper(client, r) ==
    CASE r = JunkRecord -> <<>>
      [] r = UnknownKey -> <<PaperResult(client, UnknownKey, "Unknown Title", 0, 0)>>
      [] OTHER -> <<PaperResult(client, r, "Quantum Computing", CurrentYear, 0)>>

\* the loop `paper = parse(item); if paper: papers.append(paper)`
RECURSIVE ParseAll(_, _)
ParseAll(client, items) ==
    IF items = <<>> THEN <<>>
    ELSE ParsePaper(client, Head(items)) \o ParseAll(client, Tail(items))

Event(client, what) == [client |-> client, event |-> what]

Outcome(res, exc, log) == [result |-> res, raised |-> exc, log |-> log]

NoOutcome == Outcome(<<>>, FALSE, <<>>)

\* an exchange whose non-200 status and transport errors reach the caller
OneExchangeUncaught(client, endpoint, resp) ==
    LET log == <<Event(client, "acquire"), Event(client, endpoint)>> IN
    CASE resp.kind = "ok" -> Outcome(ParseAll(client, resp.items), FALSE, log)
      [] resp.kind = "malformed" -> Outcome(<<>>, FALSE, log)
      [] OTHER -> Outcome(<<>>, TRUE, log)

\* try: async with self.rate_limiter: session.get(...); status check;
\* parse every item; except Exception: return []
OneExchange(client, endpoint, resp) ==
    LET log == <<Event(client, "acquire"), Event(client, endpoint)>> IN
    CASE resp.kind = "ok" -> Outcome(ParseAll(client, resp.items), FALSE, log)
      [] resp.kind = "cancelled" -> Outcome(<<>>, TRUE, log)
      [] OTHER -> Outcome(<<>>, FALSE, log)

\* PubMedAPI.fetch_details: ','.join(pmids) raises inside the limiter scope,
\* before the request, when an id is not a string
FetchDetails(pmids, resp) ==
    CASE pmids = <<>> -> NoOutcome
      [] JunkRecord \in Range(pmids) ->
            Outcome(<<>>, FALSE, <<Event("pubmed", "acquire")>>)
      [] OTHER -> OneExchange("pubmed", "efetch", resp)

\* the first exchange of PubMedAPI.search / get_citations yields ids, the
\* second one (fetch_details) the papers
TwoExchanges(endpoint, limit, r1, r2) ==
    LET log == <<Event("pubmed", "acquire"), Event("pubmed", endpoint)>> IN
    CASE r1.kind = "cancelled" -> Outcome(<<>>, TRUE, log)
      [] r1.kind = "ok" /\ r1.items # <<>> ->
            LET f == FetchDetails(Take(r1.items, limit), r2)
            IN  Outcome(f.result, f.raised, log \o f.log)
      [] OTHER -> Outcome(<<>>, FALSE, log)

PubMedSearch(r1, r2) == TwoExchanges("esearch", Len(r1.items), r1, r2)

\* pmids = linked_ids[0].get('links', [])[:max_citations]
PubMedGetCitations(max_citations, r1, r2) ==
    TwoExchanges("elink", max_citations, r1, r2)

S2Search(resp) == OneExchange("semantic_scholar", "paper/search", resp)

\* the body is one object; None when it is not one
S2GetPaper(resp) ==
    LET log == <<Event("semantic_scholar", "acquire"),
                 Event("semantic_scholar", "paper")>>
        item == IF resp.items = <<>> THEN UnknownKey ELSE Head(resp.items)
    IN
    CASE resp.kind = "ok" ->
            Outcome(ParsePaper("semantic_scholar", item), FALSE, log)
      [] resp.kind = "cancelled" -> Outcome(<<>>, TRUE, log)
      [] OTHER -> Outcome(<<>>, FALSE, log)

\* item.get('citedPaper', {}) / item.get('citingPaper', {}) is outside
\* _parse_paper: an item that is not an object ends the whole call in the
\* handler
S2Linked(endpoint, resp) ==
    IF resp.kind = "ok" /\ JunkRecord \in Range(resp.items)
    THEN Outcome(<<>>, FALSE, <<Event("semantic_scholar", "acquire"),
                                Event("semantic_scholar", endpoint)>>)
    ELSE OneExchange("semantic_scholar", endpoint, resp)

S2GetCitations(resp) == S2Linked("references", resp)

S2GetCitedBy(resp) == S2Linked("citations", resp)

\* a CORE search that goes to the provider without a key
CoreSearchNoGate(key, resp) == OneExchange("core", "search/works", resp)

\* if not self.api_key: return []
CoreSearch(key, resp) ==
    IF ~key THEN NoOutcome ELSE OneExchange("core", "search/works", resp)

\* --- AcademicAPIManager ---

\* the order of the coroutines handed to asyncio.gather
ClientOrder == <<"pubmed", "semantic_scholar", "core">>

\* a source tag no client answers to
Tags == ApiSources \cup {"arxiv"}

DefaultMaxCitations == 20

Limits == {1, DefaultMaxCitations}

NoTasks ==
    [c \in ApiSources |-> [state |-> "none", result |-> <<>>, log |-> <<>>]]

ClientSearch(client, key, r1, r2) ==
    CASE client = "pubmed" -> PubMedSearch(r1, r2)
      [] client = "semantic_scholar" -> S2Search(r1)
      [] client = "core" -> CoreSearch(key, r1)

RECURSIVE GatherFrom(_, _)
GatherFrom(tasks, i) ==
    IF i > Len(ClientOrder) THEN <<>>
    ELSE (IF tasks[ClientOrder[i]].state = "returned"
          THEN tasks[ClientOrder[i]].result ELSE <<>>)
         \o GatherFrom(tasks, i + 1)

\* asyncio.gather without return_exceptions: the first exception is raised
\* to search_all and the lists of the other clients are lost
GatherFailFast(tasks) ==
    IF \E c \in ApiSources : tasks[c].state = "raised"
    THEN Outcome(<<>>, TRUE, <<>>)
    ELSE Outcome(GatherFrom(tasks, 1), FALSE, <<>>)

\* results = await asyncio.gather(..., return_exceptions=True), then
\* all_papers.extend(result) for every result that is a list
Gather(tasks) == Outcome(GatherFrom(tasks, 1), FALSE, <<>>)

\* papers[0] if papers else None
ManagerGetPaperDetails(tag, key, resp) ==
    CASE tag = "pubmed" ->
            LET f == FetchDetails(<<key>>, resp)
            IN  Outcome(Take(f.result, 1), f.raised, f.log)
      [] tag = "semantic_scholar" -> S2GetPaper(resp)
      [] OTHER -> NoOutcome

\* a dispatch that sends every tag it does not know to Semantic Scholar
ManagerGetCitationsFallback(tag, max_citations, r1, r2) ==
    CASE tag = "pubmed" -> PubMedGetCitations(max_citations, r1, r2)
      [] tag = "core" -> NoOutcome
      [] OTHER -> S2GetCitations(r1)

ManagerGetCitations(tag, max_citations, r1, r2) ==
    CASE tag = "pubmed" -> PubMedGetCitations(max_citations, r1, r2)
      [] tag = "semantic_scholar" -> S2GetCitations(r1)
      [] OTHER -> NoOutcome

ManagerGetCitedBy(tag, resp) ==
    CASE tag = "semantic_scholar" -> S2GetCitedBy(resp)
      [] OTHER -> NoOutcome

\* --- the operations of SpecClients ---

ApiCall(layer, client, op, source, responses) ==
    [layer |-> layer, client |-> client, op |-> op, source |-> source,
     responses |-> responses]

Returns(call, out) ==
    /\ api_call' = call
    /\ api_result' = out.result
    /\ api_raised' = out.raised
    /\ api_log' = out.log
    /\ api_pc' = "returned"
    /\ api_tasks' = NoTasks
    /\ UNCHANGED <<api_key, dsVars, selVars, rlVars, cacheVars, graphVars, ragVars>>

\* the clients and the manager keep no state between operations: every
\* operation is taken from the state after construction
ApiReady == api_pc = "idle"

\* an operation of one exchange called on its client
ClientCall ==
    /\ ApiReady
    /\ \E r \in Responses :
         \/ Returns(ApiCall("client", "semantic_scholar", "search",
                            "semantic_scholar", <<r>>), S2Search(r))
         \/ Returns(ApiCall("client", "semantic_scholar", "get_paper",
                            "semantic_scholar", <<r>>), S2GetPaper(r))
         \/ Returns(ApiCall("client", "semantic_scholar", "get_citations",
                            "semantic_scholar", <<r>>), S2GetCitations(r))
         \/ Returns(ApiCall("client", "semantic_scholar", "get_cited_by",
                            "semantic_scholar", <<r>>), S2GetCitedBy(r))
         \/ Returns(ApiCall("client", "core", "search", "core", <<r>>),
                    CoreSearch(api_key.core, r))
         \/ \E pmids \in Bodies :
              Returns(ApiCall("client", "pubmed", "fetch_details", "pubmed",
                              <<r>>), FetchDetails(pmids, r))

\* PubMedAPI.search / get_citations called on the client
PubMedCall ==
    /\ ApiReady
    /\ \E r1, r2 \in Responses :
         \/ Returns(ApiCall("client", "pubmed", "search", "pubmed",
                            <<r1, r2>>), PubMedSearch(r1, r2))
         \/ \E limit \in Limits :
              Returns(ApiCall("client", "pubmed", "get_citations", "pubmed",
                              <<r1, r2>>), PubMedGetCitations(limit, r1, r2))

\* every way the search of one client can end
PubMedSearchOutcomes == { PubMedSearch(r1, r2) : r1, r2 \in Responses }

SearchOutcomes(c, key) ==
    IF c = "pubmed" THEN PubMedSearchOutcomes
    ELSE { ClientSearch(c, key, r, r) : r \in Responses }

\* search_all hands the three searches to asyncio.gather
SearchAllStart ==
    /\ ApiReady
    /\ api_call' = ApiCall("manager", "manager", "search_all", "", <<>>)
    /\ api_tasks' = [c \in ApiSources |->
                        [state |-> "running", result |-> <<>>, log |-> <<>>]]
    /\ api_pc' = "gathering"
    /\ api_result' = <<>>
    /\ api_raised' = FALSE
    /\ api_log' = <<>>
    /\ UNCHANGED <<api_key, dsVars, selVars, rlVars, cacheVars, graphVars, ragVars>>

\* one of the gathered searches ends, by returning or by raising
ClientSearchDone(c) ==
    /\ api_pc = "gathering"
    /\ api_tasks[c].state = "running"
    /\ \E out \in SearchOutcomes(c, api_key.core) :
         /\ api_tasks' = [api_tasks EXCEPT ![c] =
                [state |-> IF out.raised THEN "raised" ELSE "returned",
                 result |-> out.result, log |-> out.log]]
    /\ UNCHANGED <<api_key, api_pc, api_call, api_result, api_raised, api_log,
                   dsVars, selVars, rlVars, cacheVars, graphVars, ragVars>>

\* gather is complete: search_all combines the lists and returns
SearchAllReturn ==
    /\ api_pc = "gathering"
    /\ \A c \in ApiSources : api_tasks[c].state # "running"
    /\ LET out == Gather(api_tasks) IN
         /\ api_result' = out.result
         /\ api_raised' = out.raised
    /\ api_log' = api_tasks["pubmed"].log \o api_tasks["semantic_scholar"].log
                       \o api_tasks["core"].log
    /\ api_pc' = "returned"
    /\ UNCHANGED <<api_key, api_call, api_tasks,
                   dsVars, selVars, rlVars, cacheVars, graphVars, ragVars>>

\* get_paper_details / get_citations / get_cited_by of the manager
ManagerRoute ==
    /\ ApiReady
    /\ \E tag \in Tags, r1 \in Responses :
         \/ \E key \in RecordKeys :
              Returns(ApiCall("manager", "manager", "get_paper_details", tag,
                              <<r1>>),
                      ManagerGetPaperDetails(tag, key, r1))
         \/ \E limit \in Limits, r2 \in Responses :
              Returns(ApiCall("manager", "manager", "get_citations", tag,
                              <<r1, r2>>),
                      ManagerGetCitations(tag, limit, r1, r2))
         \/ Returns(ApiCall("manager", "manager", "get_cited_by", tag,
                            <<r1>>), ManagerGetCitedBy(tag, r1))

InitClients ==
    /\ api_key \in [pubmed : BOOLEAN, core : BOOLEAN]
    /\ api_pc = "idle"
    /\ api_call = ApiCall("", "", "", "", <<>>)
    /\ api_tasks = NoTasks
    /\ api_result = <<>>
    /\ api_raised = FALSE
    /\ api_log = <<>>
    /\ dsIdle /\ selIdle /\ rlIdle /\ cacheIdle /\ graphIdle /\ ragIdle

NextClients ==
    \/ ClientCall
    \/ PubMedCall
    \/ SearchAllStart
    \/ \E c \in ApiSources : ClientSearchDone(c)
    \/ SearchAllReturn
    \/ ManagerRoute

SpecClients == InitClients /\ [][NextClients]_vars

----------------------------------------------------------------------------
(* Properties of the clients and the manager, checked under SpecClients *)

\* the HTTP requests the operation made
Requests == { i \in DOMAIN api_log : api_log[i].event # "acquire" }

\* the responses those requests got, in order
Consumed ==
    { api_call.responses[i] :
        i \in 1..Min(Cardinality(Requests), Len(api_call.responses)) }

\* C11: an operation called on a client returns an empty list (None for
\* get_paper) whenever one of its requests meets a transport failure, a
\* non-200 status or a malformed payload, and it raises for none of them.
C11_BestEffort ==
    (api_pc = "returned" /\ api_call.layer = "client") =>
        /\ (\E r \in Consumed : r.kind \in FailureKinds) =>
              (api_result = <<>> /\ ~api_raised)
        /\ api_raised => \E r \in Consumed : r.kind = "cancelled"

\* PubMedAPI.search got its ids and then a malformed efetch body
C11_Witness ==
    /\ api_pc = "returned"
    /\ api_call.layer = "client" /\ api_call.client = "pubmed"
    /\ api_call.op = "search"
    /\ Cardinality(Requests) = 2
    /\ api_call.responses[1].kind = "ok"
    /\ api_call.responses[2].kind = "malformed"
    /\ api_result = <<>> /\ ~api_raised

Contribution(c) ==
    IF api_tasks[c].state = "returned" THEN api_tasks[c].result ELSE <<>>

\* C12: inside search_all the searches of all three clients are in flight
\* together; search_all never raises, and what it returns is made of the
\* lists of the clients that returned, whole, and of nothing else.
C12_SearchAllUnion ==
    /\ api_pc = "gathering" =>
          \A c \in ApiSources : api_tasks[c].state # "none"
    /\ (api_pc = "returned" /\ api_call.op = "search_all") =>
          /\ ~api_raised
          /\ Len(api_result) = Len(Contribution("pubmed"))
                + Len(Contribution("semantic_scholar"))
                + Len(Contribution("core"))
          /\ \A c \in ApiSources :
                Range(Contribution(c)) \subseteq Range(api_result)
          /\ \A p \in Range(api_result) :
                \E c \in ApiSources : p \in Range(Contribution(c))

\* one search raised, another one returned papers, and search_all returned
\* those papers
C12_Witness ==
    /\ api_pc = "returned" /\ api_call.op = "search_all"
    /\ api_tasks["pubmed"].state = "raised"
    /\ Len(api_tasks["semantic_scholar"].result) = MaxItems
    /\ api_result = api_tasks["semantic_scholar"].result
                        \o api_tasks["core"].result

RouteOps == {"get_paper_details", "get_citations", "get_cited_by"}

\* the capabilities the providers have
Capable(op, tag) ==
    CASE op = "get_cited_by" -> tag = "semantic_scholar"
      [] OTHER -> tag \in {"pubmed", "semantic_scholar"}

\* C13: a routed manager call makes requests to the client of the source tag
\* and to no other client; for an unknown tag or a provider without the
\* capability it makes no request at all, returns None / an empty list and
\* does not raise.
C13_RouteByTag ==
    (api_pc = "returned" /\ api_call.op \in RouteOps) =>
        /\ \A i \in DOMAIN api_log : api_log[i].client = api_call.source
        /\ Capable(api_call.op, api_call.source) => Requests # {}
        /\ ~Capable(api_call.op, api_call.source) =>
              (api_log = <<>> /\ api_result = <<>> /\ ~api_raised)

\* get_citations with the tag "pubmed" went to PubMed twice (elink, efetch)
\* and returned papers
C13_Witness ==
    /\ api_pc = "returned" /\ api_call.op = "get_citations"
    /\ api_call.source = "pubmed"
    /\ Cardinality(Requests) = 2
    /\ api_result # <<>>

\* C14: without a CORE api_key, COREAPI.search returns an empty list with no
\* limiter entry and no request, and search_all returns the lists of the
\* other two clients.
C14_DisabledCore ==
    ~api_key.core =>
        /\ \A i \in DOMAIN api_log : api_log[i].client # "core"
        /\ \A c \in ApiSources : api_tasks[c].log = <<>> \/ c # "core"
        /\ (api_pc = "returned" /\ api_call.client = "core") =>
              (api_result = <<>> /\ ~api_raised)
        /\ (api_pc = "returned" /\ api_call.op = "search_all") =>
              /\ api_tasks["core"].state = "returned"
              /\ api_result = Contribution("pubmed")
                                  \o Contribution("semantic_scholar")

\* search_all without a CORE key returned papers of both other clients
C14_Witness ==
    /\ ~api_key.core
    /\ api_pc = "returned" /\ api_call.op = "search_all"
    /\ Contribution("pubmed") # <<>>
    /\ Contribution("semantic_scholar") # <<>>
    /\ Len(api_result) = Len(Contribution("pubmed"))
                            + Len(Contribution("semantic_scholar"))

----------------------------------------------------------------------------
(* SpecCache: operations on one PaperCache, on a clock that only moves on *)

\* ttl_days of the cache under test
TtlChoices == {1}

CacheSources == {"pubmed", "semantic_scholar"}

CacheIds == {1, 2}

\* the clock runs until one tick after a row written at the start has expired
MaxClock == DayTicks + 1

\* a run is long enough for one set per source followed by a get
MaxCacheOps == Cardinality(CacheSources) + 1

\* paper_data: paper_id 0 stands for a missing or empty paper_id, title <<>>
\* for a dict without the key 'title'
PaperData ==
    [paper_id : CacheIds, source : CacheSources,
     title : {<<>>, <<"Quantum Computing">>}]
        \cup {[paper_id |-> 0, source |-> "pubmed", title |-> <<>>]}

\* datetime.isoformat(): the day, and the fraction only when it is not zero
IsoFormat(t) ==
    IF t % DayTicks = 0 THEN <<t \div DayTicks>>
    ELSE <<t \div DayTicks, t % DayTicks>>

\* datetime.fromisoformat()
FromIso(s) == s[1] * DayTicks + (IF Len(s) > 1 THEN s[2] ELSE 0)

\* a comparison that also holds for equal texts
IsoLessEq(a, b) ==
    \/ a[1] < b[1]
    \/ a[1] = b[1] /\ Len(a) = 1
    \/ a[1] = b[1] /\ Len(a) > 1 /\ Len(b) > 1 /\ a[2] <= b[2]

\* SQLite's comparison of two TEXT values: a proper prefix sorts first
IsoLess(a, b) ==
    \/ a[1] < b[1]
    \/ a[1] = b[1] /\ Len(a) < Len(b)
    \/ a[1] = b[1] /\ Len(a) > 1 /\ Len(b) > 1 /\ a[2] < b[2]

\* the row set() writes: title defaults to '', both timestamps from
\* datetime.now()
RowOf(d, t, ttl) ==
    [paper_id |-> d.paper_id, source |-> d.source,
     title |-> IF d.title = <<>> THEN "" ELSE d.title[1],
     cached_at |-> IsoFormat(t),
     expires_at |-> IsoFormat(t + ttl * DayTicks)]

\* a replacement that keeps the expiry of the row it replaces
UpsertInherit(st, row) ==
    LET old == { r \in st : r.paper_id = row.paper_id } IN
    (st \ old) \cup
        { IF old = {} THEN row
          ELSE [row EXCEPT !.expires_at = (CHOOSE r \in old : TRUE).expires_at] }

\* INSERT OR REPLACE on a table whose PRIMARY KEY is paper_id
Upsert(st, row) == { r \in st : r.paper_id # row.paper_id } \cup {row}

\* SELECT * FROM papers WHERE paper_id = ? AND source = ?
SelectRows(st, id, src) == { r \in st : r.paper_id = id /\ r.source = src }

\* the dict get() builds from a row
DataOf(row) ==
    [paper_id |-> row.paper_id, source |-> row.source, title |-> <<row.title>>]

\* a row that counts as expired from the tick of its expiry on
ExpiredAtExpiry(row, t) == t >= FromIso(row.expires_at)

\* if datetime.now() > expires_at
Expired(row, t) == t > FromIso(row.expires_at)

Effect(st, res) == [store |-> st, result |-> res]

\* get(): a miss, a purge of the expired row, or a hit; a storage error is
\* a miss and rolls the purge back
GetEffect(st, id, src, t, fail) ==
    LET rows == SelectRows(st, id, src)
        row == CHOOSE r \in rows : TRUE
    IN
    CASE fail -> Effect(st, <<>>)
      [] rows = {} -> Effect(st, <<>>)
      [] Expired(row, t) -> Effect(st \ rows, <<>>)
      [] OTHER -> Effect(st, <<DataOf(row)>>)

\* a set() whose storage error comes after the row is written and is not
\* rolled back
SetEffectPartial(st, d, t, ttl, fail) ==
    IF d.paper_id = 0 THEN Effect(st, <<FALSE>>)
    ELSE Effect(Upsert(st, RowOf(d, t, ttl)), <<~fail>>)

\* set(): False without paper_id, False and no change on a storage error
SetEffect(st, d, t, ttl, fail) ==
    CASE d.paper_id = 0 -> Effect(st, <<FALSE>>)
      [] fail -> Effect(st, <<FALSE>>)
      [] OTHER -> Effect(Upsert(st, RowOf(d, t, ttl)), <<TRUE>>)

\* DELETE FROM papers WHERE expires_at < ?   (now as ISO text)
ClearExpiredEffect(st, t, fail) ==
    LET gone == { r \in st : IsoLess(r.expires_at, IsoFormat(t)) } IN
    IF fail THEN Effect(st, <<0>>)
    ELSE Effect(st \ gone, <<Cardinality(gone)>>)

\* DELETE FROM papers
ClearAllEffect(st, fail) ==
    IF fail THEN Effect(st, <<0>>) ELSE Effect({}, <<Cardinality(st)>>)

Entry(op, d, fail, res) ==
    [op |-> op, paper_id |-> d.paper_id, source |-> d.source,
     title |-> d.title, at |-> clock, failed |-> fail, result |-> res]

NoData == [paper_id |-> 0, source |-> "", title |-> <<>>]

CacheReady == Len(cache_log) < MaxCacheOps

Performs(op, d, fail, eff) ==
    /\ store' = eff.store
    /\ cache_log' = Append(cache_log, Entry(op, d, fail, eff.result))
    /\ UNCHANGED <<ttl_days, clock, getting, dsVars, selVars, rlVars, apiVars, graphVars, ragVars>>

CacheGet ==
    /\ CacheReady
    /\ \E id \in CacheIds, src \in CacheSources, fail \in BOOLEAN :
        Performs("get", [paper_id |-> id, source |-> src, title |-> <<>>],
                 fail, GetEffect(store, id, src, clock, fail))

CacheSet ==
    /\ CacheReady
    /\ \E d \in PaperData, fail \in BOOLEAN :
        Performs("set", d, fail, SetEffect(store, d, clock, ttl_days, fail))

CacheClearExpired ==
    /\ CacheReady
    /\ \E fail \in BOOLEAN :
        Performs("clear_expired", NoData, fail,
                 ClearExpiredEffect(store, clock, fail))

CacheClearAll ==
    /\ CacheReady
    /\ \E fail \in BOOLEAN :
        Performs("clear_all", NoData, fail, ClearAllEffect(store, fail))

\* datetime.now() moves on
CacheTick ==
    /\ CacheReady
    /\ clock < MaxClock
    /\ clock' = clock + 1
    /\ UNCHANGED <<ttl_days, store, cache_log, getting,
                   dsVars, selVars, rlVars, apiVars, graphVars, ragVars>>

InitCache ==
    /\ ttl_days \in TtlChoices
    /\ store = {}
    /\ clock = 0
    /\ cache_log = <<>>
    /\ getting = {}
    /\ dsIdle /\ selIdle /\ rlIdle /\ apiIdle /\ graphIdle /\ ragIdle

NextCache ==
    \/ CacheGet
    \/ CacheSet
    \/ CacheClearExpired
    \/ CacheClearAll
    \/ CacheTick

SpecCache == InitCache /\ [][NextCache]_vars

----------------------------------------------------------------------------
(* Properties of PaperCache, checked under SpecCache *)

Last(s) == s[Len(s)]

SetOk(e) == e.op = "set" /\ e.result = <<TRUE>>

GetOf(e, s) ==
    /\ e.op = "get" /\ ~e.failed
    /\ e.paper_id = s.paper_id /\ e.source = s.source

\* every key the dict had is in the returned dict with the written value
ReturnsWritten(e, s) ==
    /\ Len(e.result) = 1
    /\ e.result[1].paper_id = s.paper_id
    /\ e.result[1].source = s.source
    /\ s.title # <<>> => e.result[1].title = s.title

ExpiryOf(s) == s.at + ttl_days * DayTicks

\* nothing but reads and expiry sweeps between entries i and j
OnlyReadsBetween(i, j) ==
    \A k \in (i + 1)..(j - 1) : cache_log[k].op \in {"get", "clear_expired"}

\* C15: after a successful set(d), with no other write in between, a get of
\* d's key returns the written data while now <= expires_at; after that it
\* returns None, and the row is gone from the store.
C15_RoundTripAndExpiry ==
    \A i, j \in DOMAIN cache_log :
        (/\ i < j
         /\ SetOk(cache_log[i])
         /\ GetOf(cache_log[j], cache_log[i])
         /\ OnlyReadsBetween(i, j)) =>
            IF cache_log[j].at <= ExpiryOf(cache_log[i])
            THEN ReturnsWritten(cache_log[j], cache_log[i])
            ELSE /\ cache_log[j].result = <<>>
                 /\ j = Len(cache_log) =>
                       SelectRows(store, cache_log[j].paper_id,
                                  cache_log[j].source) = {}

\* set, a get that still hits at the very tick of expiry... then, one tick
\* later, a get that misses
C15_Witness ==
    /\ Len(cache_log) = 3
    /\ SetOk(cache_log[1]) /\ cache_log[1].title # <<>>
    /\ GetOf(cache_log[2], cache_log[1])
    /\ cache_log[2].at = ExpiryOf(cache_log[1])
    /\ ReturnsWritten(cache_log[2], cache_log[1])
    /\ GetOf(cache_log[3], cache_log[1])
    /\ cache_log[3].at > ExpiryOf(cache_log[1])
    /\ cache_log[3].result = <<>>
    /\ store = {}

\* C16: every stored row has expires_at = cached_at + TTL, and the row of a
\* key just set carries the time of that set as cached_at, also when the set
\* replaced an older row.
C16_ExpiryFromCachedAt ==
    /\ \A r \in store :
          FromIso(r.expires_at) = FromIso(r.cached_at) + ttl_days * DayTicks
    /\ (cache_log # <<>> /\ SetOk(Last(cache_log))) =>
          \E r \in store :
              /\ r.paper_id = Last(cache_log).paper_id
              /\ r.source = Last(cache_log).source
              /\ FromIso(r.cached_at) = Last(cache_log).at
              /\ \A q \in store : q.paper_id = r.paper_id => q = r

\* a key is set, and set again at a later time
C16_Witness ==
    /\ Len(cache_log) >= 2
    /\ SetOk(cache_log[1]) /\ SetOk(cache_log[2])
    /\ cache_log[2].paper_id = cache_log[1].paper_id
    /\ cache_log[2].source = cache_log[1].source
    /\ cache_log[2].at > cache_log[1].at
    /\ \E r \in store : FromIso(r.cached_at) = cache_log[2].at

\* C17: records with one paper_id and different sources are stored side by
\* side: after set(id, s1) and then set(id, s2), an unexpired get(id, s1)
\* still returns the first record.
C17_KeyedByIdAndSource ==
    \A i \in DOMAIN cache_log :
        (/\ i + 2 <= Len(cache_log)
         /\ SetOk(cache_log[i])
         /\ SetOk(cache_log[i + 1])
         /\ cache_log[i + 1].paper_id = cache_log[i].paper_id
         /\ cache_log[i + 1].source # cache_log[i].source
         /\ GetOf(cache_log[i + 2], cache_log[i])
         /\ cache_log[i + 2].at <= ExpiryOf(cache_log[i])) =>
            ReturnsWritten(cache_log[i + 2], cache_log[i])

Miss(e) ==
    CASE e.op = "get" -> e.result = <<>>
      [] e.op = "set" -> e.result = <<FALSE>>
      [] OTHER -> e.result = <<0>>

\* C18: an operation that meets a storage error returns its miss value
\* (None, False, 0), and a set that meets one leaves the rows as they were.
C18_StorageErrorIsMiss ==
    [][(Len(cache_log') > Len(cache_log) /\ Last(cache_log').failed) =>
          /\ Miss(Last(cache_log'))
          /\ Last(cache_log').op = "set" => store' = store]_vars

\* a set met a storage error while a row was stored
C18_Witness ==
    /\ cache_log # <<>>
    /\ Last(cache_log).op = "set" /\ Last(cache_log).failed
    /\ Last(cache_log).paper_id # 0
    /\ Last(cache_log).result = <<FALSE>>
    /\ store # {}

\* C19: clear_expired removes the rows a get would miss as expired, those
\* only, and returns how many they are; clear_all removes every row and
\* returns how many there were.
C19_ClearCounts ==
    [][(Len(cache_log') > Len(cache_log) /\ ~Last(cache_log').failed) =>
          /\ Last(cache_log').op = "clear_expired" =>
                /\ store' = { r \in store : ~Expired(r, clock) }
                /\ Last(cache_log').result
                      = <<Cardinality({ r \in store : Expired(r, clock) })>>
          /\ Last(cache_log').op = "clear_all" =>
                /\ store' = {}
                /\ Last(cache_log').result = <<Cardinality(store)>>]_vars

\* clear_expired removed one row and kept an unexpired one
C19_Witness ==
    /\ cache_log # <<>>
    /\ Last(cache_log).op = "clear_expired"
    /\ Last(cache_log).result = <<1>>
    /\ Cardinality(store) = 1

----------------------------------------------------------------------------
(* SpecGraph: operations on one CitationGraph *)

GraphIds == {1, 2}

\* the papers handed to add_paper: two papers may share a paper_id and
\* differ in the rest
GraphPapers == [paper_id : GraphIds, relevance_score : {0, 1}]

CitationTypes == {"cites", "cited_by"}

\* PaperNode(paper=paper)
PaperNode(paper) ==
    [paper |-> paper, citations_out |-> <<>>, citations_in |-> <<>>,
     visited |-> FALSE]

EmptyGraph == [node |-> {}, edge |-> {}]

\* self.nodes[key] = value
Put(f, key, value) ==
    [k \in DOMAIN f \cup {key} |-> IF k = key THEN value ELSE f[k]]

\* if x not in lst: lst.append(x)
AppendNew(lst, x) == IF x \in Range(lst) THEN lst ELSE Append(lst, x)

\* DiGraph.add_edge(u, v, type=t): one edge per ordered pair, the attribute
\* of an existing edge is overwritten
AddEdge(g, u, v, t) ==
    [g EXCEPT !.edge = { e \in @ : ~(e.from = u /\ e.to = v) }
                           \cup {[from |-> u, to |-> v, type |-> t]}]

GraphState(n, g, v, res) == [nodes |-> n, graph |-> g, visited |-> v, result |-> res]

\* an add_paper that stores the paper whether or not its id is known
AddPaperOverwrite(n, g, v, paper) ==
    GraphState(Put(n, paper.paper_id, PaperNode(paper)),
               [g EXCEPT !.node = @ \cup {paper.paper_id}], v,
               paper.paper_id \notin DOMAIN n)

\* add_paper
AddPaperEffect(n, g, v, paper) ==
    IF paper.paper_id \in DOMAIN n
    THEN GraphState(n, g, v, FALSE)
    ELSE GraphState(Put(n, paper.paper_id, PaperNode(paper)),
                    [g EXCEPT !.node = @ \cup {paper.paper_id}], v, TRUE)

\* an add_citation that hands the pair to the DiGraph whatever the nodes are:
\* DiGraph.add_edge creates the nodes it is given
AddCitationImplicit(n, g, v, from, to, type) ==
    IF from \notin DOMAIN n \/ to \notin DOMAIN n
    THEN GraphState(n, [AddEdge(g, from, to, type)
                          EXCEPT !.node = @ \cup {from, to}], v, FALSE)
    ELSE LET n1 == IF type = "cites"
                   THEN [n EXCEPT ![from].citations_out = AppendNew(@, to)]
                   ELSE [n EXCEPT ![from].citations_in = AppendNew(@, to)]
             n2 == IF type = "cites"
                   THEN [n1 EXCEPT ![to].citations_in = AppendNew(@, from)]
                   ELSE [n1 EXCEPT ![to].citations_out = AppendNew(@, from)]
         IN  GraphState(n2, AddEdge(g, from, to, type), v, TRUE)

\* add_citation
AddCitationEffect(n, g, v, from, to, type) ==
    IF from \notin DOMAIN n \/ to \notin DOMAIN n
    THEN GraphState(n, g, v, FALSE)
    ELSE LET n1 == IF type = "cites"
                   THEN [n EXCEPT ![from].citations_out = AppendNew(@, to)]
                   ELSE [n EXCEPT ![from].citations_in = AppendNew(@, to)]
             n2 == IF type = "cites"
                   THEN [n1 EXCEPT ![to].citations_in = AppendNew(@, from)]
                   ELSE [n1 EXCEPT ![to].citations_out = AppendNew(@, from)]
         IN  GraphState(n2, AddEdge(g, from, to, type), v, TRUE)

\* a mark_visited that adds the id to self.visited without looking it up in
\* self.nodes
MarkVisitedUnchecked(n, g, v, id) ==
    GraphState(IF id \in DOMAIN n THEN [n EXCEPT ![id].visited = TRUE] ELSE n,
               g, v \cup {id}, TRUE)

\* mark_visited
MarkVisitedEffect(n, g, v, id) ==
    IF id \in DOMAIN n
    THEN GraphState([n EXCEPT ![id].visited = TRUE], g, v \cup {id}, TRUE)
    ELSE GraphState(n, g, v, FALSE)

\* a get_unvisited_neighbors that does not look at self.visited
GetNeighborsUnfiltered(n, v, paper_id, max_neighbors, direction) ==
    IF paper_id \notin DOMAIN n THEN <<>>
    ELSE LET node == n[paper_id]
             neighbor_ids ==
                 IF direction = "out" THEN node.citations_out
                 ELSE IF direction = "in" THEN node.citations_in
                 ELSE node.citations_out \o node.citations_in
             unvisited == [ i \in DOMAIN neighbor_ids |->
                              n[neighbor_ids[i]].paper ]
         IN  Take(SortByScore(unvisited), max_neighbors)

\* get_unvisited_neighbors: the nodes of the list(s) of the direction that
\* are in self.nodes and not in self.visited, after a stable sort by
\* descending relevance_score, cut to max_neighbors
GetUnvisitedNeighbors(n, v, paper_id, max_neighbors, direction) ==
    IF paper_id \notin DOMAIN n THEN <<>>
    ELSE LET node == n[paper_id]
             neighbor_ids ==
                 IF direction = "out" THEN node.citations_out
                 ELSE IF direction = "in" THEN node.citations_in
                 ELSE node.citations_out \o node.citations_in
             unvisited_ids ==
                 SelectSeq(neighbor_ids,
                           LAMBDA nid : nid \in DOMAIN n /\ nid \notin v)
             unvisited == [ i \in DOMAIN unvisited_ids |->
                              n[unvisited_ids[i]].paper ]
         IN  Take(SortByScore(unvisited), max_neighbors)

\* the successors of u in the undirected projection of the DiGraph
Neighbors(g, u) ==
    { e.to : e \in { x \in g.edge : x.from = u } }
        \cup { e.from : e \in { x \in g.edge : x.to = u } }

\* the successors of u when the direction of the edges is not looked at
SuccessorsUndirected(g, u) ==
    { e.to : e \in { x \in g.edge : x.from = u } }
        \cup { e.from : e \in { x \in g.edge : x.to = u } }

\* the successors of u in the DiGraph
Successors(g, u) == { e.to : e \in { x \in g.edge : x.from = u } }

\* the nodes first reached at each level of a breadth-first search from the
\* nodes of `frontier`
RECURSIVE Levels(_, _, _)
Levels(g, seen, frontier) ==
    IF frontier = {} THEN <<>>
    ELSE LET next == UNION { Successors(g, u) : u \in frontier } \ seen
         IN  <<frontier>> \o Levels(g, seen \cup next, next)

\* the paths that step back from `end` through the levels of the search
RECURSIVE PathsBack(_, _, _)
PathsBack(g, levels, suffix) ==
    IF Len(levels) = 0 THEN {suffix}
    ELSE UNION { PathsBack(g, SubSeq(levels, 1, Len(levels) - 1),
                           <<u>> \o suffix) :
                 u \in { w \in levels[Len(levels)] :
                           Head(suffix) \in Successors(g, w) } }

NoPath == <<>>

\* nx.shortest_path(self.graph, start, end): the paths found by a
\* breadth-first search; NetworkXNoPath is caught and None returned
ShortestPaths(g, start, end) ==
    LET levels == Levels(g, {start}, {start})
        hit == { k \in DOMAIN levels : end \in levels[k] }
    IN  IF hit = {} THEN {NoPath}
        ELSE LET k == CHOOSE x \in hit : TRUE
             IN  PathsBack(g, SubSeq(levels, 1, k - 1), <<end>>)

\* find_shortest_path
FindShortestPaths(n, g, start, end) ==
    IF start \notin DOMAIN n \/ end \notin DOMAIN n THEN {NoPath}
    ELSE ShortestPaths(g, start, end)

\* the nodes reached from those of `part` in the undirected graph
RECURSIVE Component(_, _)
Component(g, part) ==
    LET more == (UNION { Neighbors(g, u) : u \in part }) \ part
    IN  IF more = {} THEN part ELSE Component(g, part \cup more)

\* get_connected_components: nx.connected_components(graph.to_undirected())
GetConnectedComponents(g) == { Component(g, {u}) : u \in g.node }

GraphRet(op, paper, given, res) ==
    [op |-> op, paper |-> paper, args |-> given, result |-> res]

NoPaper == [paper_id |-> 0, relevance_score |-> 0]

Becomes(op, paper, given, st) ==
    /\ nodes' = st.nodes
    /\ graph' = st.graph
    /\ g_visited' = st.visited
    /\ graph_ret' = GraphRet(op, paper, given, st.result)
    /\ UNCHANGED <<dsVars, selVars, rlVars, apiVars, cacheVars, ragVars>>

\* an operation that reads the graph and returns `res`
Answers(op, given, res) ==
    Becomes(op, NoPaper, given, GraphState(nodes, graph, g_visited, res))

GraphLive == graph_ret.op # "off"

Reads == {"get_unvisited_neighbors", "find_shortest_path",
          "get_connected_components"}

\* a read leaves the graph as it found it: the operations that follow a read
\* are those that follow the state it was made in
GraphReady == GraphLive /\ graph_ret.op \notin Reads

AddPaper ==
    /\ GraphReady
    /\ \E paper \in GraphPapers :
         Becomes("add_paper", paper, <<>>,
                 AddPaperEffect(nodes, graph, g_visited, paper))

AddCitation ==
    /\ GraphReady
    /\ \E from \in GraphIds, to \in GraphIds, type \in CitationTypes :
         Becomes("add_citation", NoPaper, <<from, to, type>>,
                 AddCitationEffect(nodes, graph, g_visited, from, to, type))

MarkVisited ==
    /\ GraphReady
    /\ \E id \in GraphIds :
         Becomes("mark_visited", NoPaper, <<id>>,
                 MarkVisitedEffect(nodes, graph, g_visited, id))

\* clear()
Clear ==
    /\ GraphReady
    /\ Becomes("clear", NoPaper, <<>>, GraphState(<<>>, EmptyGraph, {}, TRUE))

Directions == {"out", "in", "both"}

MaxNeighbors == 2

UnvisitedNeighbors ==
    /\ GraphReady
    /\ \E id \in GraphIds, max \in 0..MaxNeighbors, direction \in Directions :
         Answers("get_unvisited_neighbors", <<id, max, direction>>,
                 GetUnvisitedNeighbors(nodes, g_visited, id, max, direction))

InitGraph ==
    /\ nodes = <<>>
    /\ graph = EmptyGraph
    /\ g_visited = {}
    /\ graph_ret = GraphRet("init", NoPaper, <<>>, TRUE)
    /\ dsIdle /\ selIdle /\ rlIdle /\ apiIdle /\ cacheIdle /\ ragIdle

NextGraph ==
    \/ AddPaper
    \/ AddCitation
    \/ MarkVisited
    \/ Clear
    \/ UnvisitedNeighbors

SpecGraph == InitGraph /\ [][NextGraph]_vars

(* SpecPaths: the path and component queries on graphs of three papers *)

PathIds == {1, 2, 3}

PathPapers == [paper_id : PathIds, relevance_score : {0}]

MaxPathEdges == 3

AddPathPaper ==
    /\ GraphReady
    /\ \E paper \in PathPapers :
         Becomes("add_paper", paper, <<>>,
                 AddPaperEffect(nodes, graph, g_visited, paper))

AddPathCitation ==
    /\ GraphReady
    /\ \E from \in PathIds, to \in PathIds, type \in CitationTypes :
         LET st == AddCitationEffect(nodes, graph, g_visited, from, to, type)
         IN  /\ Cardinality(st.graph.edge) <= MaxPathEdges
             /\ Becomes("add_citation", NoPaper, <<from, to, type>>, st)

FindShortestPath ==
    /\ GraphReady
    /\ \E start \in PathIds, end \in PathIds :
         \E path \in FindShortestPaths(nodes, graph, start, end) :
            Answers("find_shortest_path", <<start, end>>, path)

ConnectedComponents ==
    /\ GraphReady
    /\ Answers("get_connected_components", <<>>,
               GetConnectedComponents(graph))

NextPaths ==
    \/ AddPathPaper
    \/ AddPathCitation
    \/ FindShortestPath
    \/ ConnectedComponents

SpecPaths == InitGraph /\ [][NextPaths]_vars

\* C20: an add_paper of a new paper_id returns True and adds that one node;
\* an add_paper of a paper_id already in the graph returns False and changes
\* neither the nodes (paper, adjacency lists, visited flag), nor the edges,
\* nor the visited set.
C20_AddPaperIdempotent ==
    [][graph_ret'.op = "add_paper" =>
          LET id == graph_ret'.paper.paper_id IN
          IF id \in DOMAIN nodes
          THEN /\ graph_ret'.result = FALSE
               /\ nodes' = nodes /\ graph' = graph /\ g_visited' = g_visited
          ELSE /\ graph_ret'.result = TRUE
               /\ DOMAIN nodes' = DOMAIN nodes \cup {id}
               /\ nodes'[id] = PaperNode(graph_ret'.paper)
               /\ \A k \in DOMAIN nodes : nodes'[k] = nodes[k]
               /\ graph'.edge = graph.edge /\ g_visited' = g_visited]_vars

\* a paper with the id of a visited node that has citations was added again,
\* with other content, and refused
C20_Witness ==
    /\ graph_ret.op = "add_paper" /\ graph_ret.result = FALSE
    /\ LET id == graph_ret.paper.paper_id IN
         /\ id \in DOMAIN nodes
         /\ nodes[id].paper # graph_ret.paper
         /\ nodes[id].citations_out # <<>>
         /\ nodes[id].visited

HasEdge(a, b) == \E e \in graph.edge : e.from = a /\ e.to = b

\* C21: after any sequence of add_paper and add_citation calls, of either
\* citation type, the three records of the citation relation agree: for all
\* papers a and b of the graph, b is in a's citations_out iff a is in b's
\* citations_in iff the directed graph has the edge a -> b.
C21_RepresentationsAgree ==
    \A a \in DOMAIN nodes, b \in DOMAIN nodes :
        /\ (b \in Range(nodes[a].citations_out))
               <=> (a \in Range(nodes[b].citations_in))
        /\ (b \in Range(nodes[a].citations_out)) <=> HasEdge(a, b)

\* C22: an add_citation whose from or to paper is not in the graph changes
\* nothing: no node appears, no adjacency list, edge or visited entry
\* changes, and the call returns without an exception.
C22_MissingEndpointNoOp ==
    [][(/\ graph_ret'.op = "add_citation"
        /\ \/ graph_ret'.args[1] \notin DOMAIN nodes
           \/ graph_ret'.args[2] \notin DOMAIN nodes)
       => /\ nodes' = nodes
          /\ graph' = graph
          /\ g_visited' = g_visited
          /\ graph_ret'.result = FALSE]_vars

\* a citation from a visited paper with citations to a paper that was never
\* added was offered
C22_Witness ==
    /\ graph_ret.op = "add_citation"
    /\ graph_ret.args[1] \in DOMAIN nodes
    /\ graph_ret.args[2] \notin DOMAIN nodes
    /\ nodes[graph_ret.args[1]].citations_out # <<>>
    /\ graph_ret.args[1] \in g_visited

\* a cites b, by both adjacency lists
Cites(n, a, b) ==
    /\ b \in Range(n[a].citations_out)
    /\ a \in Range(n[b].citations_in)

\* C23: get_unvisited_neighbors(id, max, direction) with direction "out" or
\* "in" returns at most max nodes; each is a node of the graph that id cites
\* ("out") or that cites id ("in") and that is not visited; none is returned
\* twice; they are in descending order of relevance_score; the list is empty
\* for an id that is not in the graph; and the call changes neither the
\* nodes, nor the edges, nor the visited set.
C23_UnvisitedNeighbors ==
    [][(/\ graph_ret'.op = "get_unvisited_neighbors"
        /\ graph_ret'.args[3] \in {"out", "in"})
       => LET id == graph_ret'.args[1]
              max == graph_ret'.args[2]
              direction == graph_ret'.args[3]
              res == graph_ret'.result
          IN  /\ nodes' = nodes /\ graph' = graph /\ g_visited' = g_visited
              /\ Len(res) <= max
              /\ id \notin DOMAIN nodes => res = <<>>
              /\ \A i \in DOMAIN res :
                    LET x == res[i].paper_id IN
                    /\ x \in DOMAIN nodes
                    /\ nodes[x].paper = res[i]
                    /\ x \notin g_visited
                    /\ ~nodes[x].visited
                    /\ IF direction = "out" THEN Cites(nodes, id, x)
                                            ELSE Cites(nodes, x, id)
              /\ \A i, j \in DOMAIN res : i # j => res[i].paper_id # res[j].paper_id
              /\ \A i, j \in DOMAIN res :
                    i < j => res[i].relevance_score >= res[j].relevance_score
      ]_vars

\* one neighbour was asked of a paper that cites two unvisited papers, and the
\* one returned is the more relevant, which the adjacency list holds second
C23_Witness ==
    /\ graph_ret.op = "get_unvisited_neighbors"
    /\ graph_ret.args[2] = 1
    /\ graph_ret.args[3] = "out"
    /\ graph_ret.args[1] \in DOMAIN nodes
    /\ LET lst == nodes[graph_ret.args[1]].citations_out IN
         /\ Len(lst) = 2
         /\ Range(lst) \cap g_visited = {}
         /\ Len(graph_ret.result) = 1
         /\ graph_ret.result[1].paper_id = lst[2]
         /\ nodes[lst[2]].paper.relevance_score > nodes[lst[1]].paper.relevance_score

\* the sequences of at most as many ids as there are papers
IdSeqs == UNION { [1..k -> PathIds] : k \in 1..Cardinality(PathIds) }

\* q leads from a to b along edges of the directed graph, each in its direction
DirectedPath(q, a, b) ==
    /\ q[1] = a /\ q[Len(q)] = b
    /\ \A i \in 1..(Len(q) - 1) : HasEdge(q[i], q[i + 1])

\* q leads from a to b along edges taken in either direction
UndirectedPath(q, a, b) ==
    /\ q[1] = a /\ q[Len(q)] = b
    /\ \A i \in 1..(Len(q) - 1) : HasEdge(q[i], q[i + 1]) \/ HasEdge(q[i + 1], q[i])

\* C24: find_shortest_path(a, b) follows the edges of the directed graph in
\* their direction only: it returns None when a or b is not in the graph or
\* no directed path leads from a to b, and otherwise a directed path from a
\* to b than which no directed path is shorter. get_connected_components
\* alone uses the undirected projection: it returns a partition of all nodes
\* in which two nodes share a part iff edges taken in either direction
\* connect them. Neither changes the graph.
C24_DirectedPathsUndirectedComponents ==
    [][/\ graph_ret'.op = "find_shortest_path" =>
            LET a == graph_ret'.args[1]
                b == graph_ret'.args[2]
                res == graph_ret'.result
                paths == { q \in IdSeqs : DirectedPath(q, a, b) }
            IN  /\ nodes' = nodes /\ graph' = graph /\ g_visited' = g_visited
                /\ IF a \notin DOMAIN nodes \/ b \notin DOMAIN nodes \/ paths = {}
                   THEN res = NoPath
                   ELSE /\ res \in paths
                        /\ \A q \in paths : Len(res) <= Len(q)
       /\ graph_ret'.op = "get_connected_components" =>
            LET res == graph_ret'.result IN
            /\ nodes' = nodes /\ graph' = graph /\ g_visited' = g_visited
            /\ UNION res = DOMAIN nodes
            /\ \A part \in res : part # {}
            /\ \A p1, p2 \in res : p1 # p2 => p1 \cap p2 = {}
            /\ \A a \in DOMAIN nodes, b \in DOMAIN nodes :
                  (\E part \in res : a \in part /\ b \in part)
                      <=> (\E q \in IdSeqs : UndirectedPath(q, a, b))
      ]_vars

\* a path of three papers was returned from a paper to one that cites it: the
\* edge between the two was not taken against its direction
C24_Witness ==
    /\ graph_ret.op = "find_shortest_path"
    /\ Len(graph_ret.result) = 3
    /\ HasEdge(graph_ret.args[2], graph_ret.args[1])

----------------------------------------------------------------------------
(* SpecMerge: _merge_search_results as _retrieve_pdf_knowledge calls it *)

\* result.get('chunk_id') of a result that has none
NoChunkId == 0

ChunkIds == {1, 2, 3, 4}

\* what one hybrid_search returns: results with a chunk_id, or none, and a score
Hits == [chunk_id : ChunkIds \cup {NoChunkId}, final_score : {1, 2}]

MaxHits == 2

\* one search returns no chunk twice
HitLists ==
    { hits \in UNION { [1..k -> Hits] : k \in 0..MaxHits } :
        \A i, j \in DOMAIN hits :
           (i # j /\ hits[i].chunk_id # NoChunkId)
               => hits[i].chunk_id # hits[j].chunk_id }

\* x.get('final_score', x.get('similarity_score', 0))
ScoreOf(x) ==
    IF "final_score" \in DOMAIN x THEN x.final_score
    ELSE IF "similarity_score" \in DOMAIN x THEN x.similarity_score
    ELSE 0

\* the loop of lines 294-298: a result is kept when it has a chunk_id that
\* no result before it had
RECURSIVE Deduplicate(_, _)
Deduplicate(results, seen_ids) ==
    IF results = <<>> THEN <<>>
    ELSE LET hit == Head(results)
             chunk_id == hit.chunk_id
         IN  IF chunk_id # NoChunkId /\ chunk_id \notin seen_ids
             THEN <<hit>> \o Deduplicate(Tail(results), seen_ids \cup {chunk_id})
             ELSE Deduplicate(Tail(results), seen_ids)

\* list.sort(key=..., reverse=True) on the key `Key`: stable
SortByKeyDesc(items, keys) ==
    LET tagged == [ i \in DOMAIN items |->
                      [relevance_score |-> keys[i], item |-> items[i]] ]
        sorted == SortByScore(tagged)
    IN  [ i \in DOMAIN sorted |-> sorted[i].item ]

\* _merge_search_results
MergeSearchResults(results1, results2, max_results) ==
    LET merged == Deduplicate(results1 \o results2, {})
        sorted == SortByKeyDesc(merged, [ i \in DOMAIN merged |-> ScoreOf(merged[i]) ])
    IN  Take(sorted, max_results)

FnCall(name, given) == [name |-> name, args |-> given, value |-> <<>>, done |-> FALSE]

FnReturn(value) == [fn EXCEPT !.value = value, !.done = TRUE]

MergeBudgets == {0, 1}

\* candidate_results = self._merge_search_results(results_original,
\*                                                results_hyde, max_sources * 3)
Merge ==
    /\ fn.name = "_merge_search_results" /\ ~fn.done
    /\ fn' = FnReturn(MergeSearchResults(fn.args[1], fn.args[2], fn.args[3] * 3))
    /\ UNCHANGED <<rag, dsVars, selVars, rlVars, apiVars, cacheVars, graphVars>>

InitMerge ==
    /\ \E results1 \in HitLists, results2 \in HitLists, max_sources \in MergeBudgets :
          fn = FnCall("_merge_search_results", <<results1, results2, max_sources>>)
    /\ rag = [pc |-> "off"]
    /\ dsIdle /\ selIdle /\ rlIdle /\ apiIdle /\ cacheIdle /\ graphIdle

NextMerge == Merge

SpecMerge == InitMerge /\ [][NextMerge]_vars

\* the results of the two searches, in the order of the merge
Searched == fn.args[1] \o fn.args[2]

\* C28: the merged candidate list holds each chunk id at most once; for a
\* chunk id that both searches returned, the entry kept is the one with the
\* higher score; the list is in descending order of score; and it has at most
\* 3 x max_sources entries.
C28_MergeKeepsHigher ==
    (fn.name = "_merge_search_results" /\ fn.done) =>
        LET merged == fn.value IN
        /\ \A i, j \in DOMAIN merged :
              i # j => merged[i].chunk_id # merged[j].chunk_id
        /\ \A i \in DOMAIN merged :
              \A a \in DOMAIN fn.args[1], b \in DOMAIN fn.args[2] :
                 (/\ fn.args[1][a].chunk_id = merged[i].chunk_id
                  /\ fn.args[2][b].chunk_id = merged[i].chunk_id)
                 => /\ ScoreOf(merged[i]) >= ScoreOf(fn.args[1][a])
                    /\ ScoreOf(merged[i]) >= ScoreOf(fn.args[2][b])
        /\ \A i, j \in DOMAIN merged :
              i < j => ScoreOf(merged[i]) >= ScoreOf(merged[j])
        /\ Len(merged) <= 3 * fn.args[3]

----------------------------------------------------------------------------
(* SpecRerank: _rerank_results on two chunks *)

\* scores are counted in units of 1/Unit
Unit == 60 * 100

\* the keywords of metadata_keywords, both languages
MetadataKeywords ==
    {"title", "author", "abstract", "summary", "introduction", "conclusion",
     "tieu de", "tac gia", "tom tat", "gioi thieu", "ket luan"}

\* the questions asked, lower-cased and split into words
RagQuestions == { <<"what", "title">>, <<"what", "subtitle">>, <<"what", "method">> }

\* kw in question_lower: kw is a substring of the question
KeywordIn(kw, question) ==
    \E i \in DOMAIN question :
        \/ question[i] = kw
        \/ question[i] = "subtitle" /\ kw = "title"

IsMetadataQuery(question) == \E kw \in MetadataKeywords : KeywordIn(kw, question)

SectionTypes == {"title", "abstract", "content"}

\* the chunks handed to the re-ranking: the words and the length of the text,
\* the metadata, and the score of the search
RerankChunks ==
    [chunk_id : {1}, words : {{}, {"what", "title"}}, text_length : {50, 500},
     page : {0, 90}, chunk_type : SectionTypes, chunk_index : {0, 100},
     final_score : {5, 9}]

\* final_score is counted in tenths
BaseScore(chunk) == (ScoreOf(chunk) * Unit) \div 10

\* len(question_words & words_in_text) / max(len(question_words), 1)
KeywordDensity(question, chunk) ==
    LET question_words == Range(question)
        n == Cardinality(question_words)
    IN  (Cardinality(question_words \cap chunk.words) * Unit)
            \div (IF n > 1 THEN n ELSE 1)

\* 1.0 / (1.0 + page * 0.1)
PageScore(chunk) == (10 * Unit) \div (10 + chunk.page)

\* 1.0 / (1.0 + chunk_index * 0.05)
IndexScore(chunk) == (20 * Unit) \div (20 + chunk.chunk_index)

\* min(text_length / 500, 1.0)
LengthScore(chunk) == Min((chunk.text_length * Unit) \div 500, Unit)

\* a section score that gives a title chunk nothing
SectionScoreNoTitle(is_metadata_query, chunk) ==
    IF is_metadata_query
    THEN IF chunk.chunk_type = "header" THEN (8 * Unit) \div 10
         ELSE IF chunk.chunk_type = "abstract" THEN (9 * Unit) \div 10
         ELSE 0
    ELSE IF chunk.chunk_type = "content" THEN (3 * Unit) \div 10 ELSE 0

\* lines 425-437
SectionScore(is_metadata_query, chunk) ==
    IF is_metadata_query
    THEN IF chunk.chunk_type = "title" THEN Unit
         ELSE IF chunk.chunk_type = "header" THEN (8 * Unit) \div 10
         ELSE IF chunk.chunk_type = "abstract" THEN (9 * Unit) \div 10
         ELSE 0
    ELSE IF chunk.chunk_type = "content" THEN (3 * Unit) \div 10 ELSE 0

\* rerank_score, in units of 1/(100 * Unit)
RerankScore(question, chunk) ==
    LET m == IsMetadataQuery(question) IN
    IF m
    THEN 15 * BaseScore(chunk) + 5 * KeywordDensity(question, chunk)
         + 20 * PageScore(chunk) + 20 * IndexScore(chunk)
         + 10 * LengthScore(chunk) + 30 * SectionScore(m, chunk)
    ELSE 40 * BaseScore(chunk) + 30 * KeywordDensity(question, chunk)
         + 15 * PageScore(chunk) + 5 * IndexScore(chunk)
         + 5 * LengthScore(chunk) + 5 * SectionScore(m, chunk)

\* _rerank_results
RerankResults(question, chunks, top_k) ==
    IF chunks = <<>> THEN <<>>
    ELSE LET scored == [ i \in DOMAIN chunks |->
                          [chunks[i] EXCEPT !.final_score = RerankScore(question, chunks[i])] ]
             sorted == SortByKeyDesc(scored, [ i \in DOMAIN scored |-> scored[i].final_score ])
         IN  Take(sorted, top_k)

TopKs == {1, 2}

\* results = await self._rerank_results(question, enriched_results, top_k=max_sources)
Rerank ==
    /\ fn.name = "_rerank_results" /\ ~fn.done
    /\ fn' = FnReturn(RerankResults(fn.args[1], fn.args[2], fn.args[3]))
    /\ UNCHANGED <<rag, dsVars, selVars, rlVars, apiVars, cacheVars, graphVars>>

InitRerank ==
    /\ \E question \in RagQuestions, c1 \in RerankChunks, c2 \in RerankChunks,
          top_k \in TopKs :
          fn = FnCall("_rerank_results",
                      <<question, <<c1, [c2 EXCEPT !.chunk_id = 2]>>, top_k>>)
    /\ rag = [pc |-> "off"]
    /\ dsIdle /\ selIdle /\ rlIdle /\ apiIdle /\ cacheIdle /\ graphIdle

NextRerank == Rerank

SpecRerank == InitRerank /\ [][NextRerank]_vars

\* the place of the chunk of that id in the returned list; past the end of
\* the list when it was cut off
PlaceOf(id) ==
    IF \E i \in DOMAIN fn.value : fn.value[i].chunk_id = id
    THEN CHOOSE i \in DOMAIN fn.value : fn.value[i].chunk_id = id
    ELSE Len(fn.value) + 1

\* a re-ranking, for a metadata question, of a "title" chunk of raw score 0.5
\* (t) and a "content" chunk of raw score 0.9 (c)
TitleAgainstContent(t, c) ==
    /\ fn.name = "_rerank_results" /\ fn.done
    /\ IsMetadataQuery(fn.args[1])
    /\ t.chunk_type = "title" /\ t.final_score = 5
    /\ c.chunk_type = "content" /\ c.final_score = 9

\* C29 as stated: for a metadata question the "title" chunk of raw score 0.5
\* is placed above the "content" chunk of raw score 0.9, whatever the page,
\* the chunk index, the text length and the keyword overlap of the two.
C29_TitleAboveContentAlways ==
    \A a, b \in 1..2 :
        TitleAgainstContent(fn.args[2][a], fn.args[2][b])
            => PlaceOf(fn.args[2][a].chunk_id) < PlaceOf(fn.args[2][b].chunk_id)

\* the title chunk is on no later page, at no later index, has no shorter
\* text up to 500 characters and shares no fewer words with the question
NoWorsePlaced(t, c) ==
    /\ t.page <= c.page
    /\ t.chunk_index <= c.chunk_index
    /\ Min(t.text_length, 500) >= Min(c.text_length, 500)
    /\ Cardinality(Range(fn.args[1]) \cap t.words)
           >= Cardinality(Range(fn.args[1]) \cap c.words)

\* C29 (amended): for a metadata question the "title" chunk of raw score 0.5
\* is placed above the "content" chunk of raw score 0.9 whenever the title
\* chunk is no worse than the content chunk in page, chunk index, text length
\* and keyword overlap.
C29_TitleAboveContent ==
    \A a, b \in 1..2 :
        (/\ TitleAgainstContent(fn.args[2][a], fn.args[2][b])
         /\ NoWorsePlaced(fn.args[2][a], fn.args[2][b]))
            => PlaceOf(fn.args[2][a].chunk_id) < PlaceOf(fn.args[2][b].chunk_id)

\* the content chunk was handed in first, the two agree in page, index, length
\* and words, and the title chunk came out first
C29_Witness ==
    /\ TitleAgainstContent(fn.args[2][2], fn.args[2][1])
    /\ NoWorsePlaced(fn.args[2][2], fn.args[2][1])
    /\ NoWorsePlaced(fn.args[2][1], fn.args[2][2])
    /\ fn.value[1].chunk_id = 2

----------------------------------------------------------------------------
(* SpecRag: one EnhancedRAGChain, answer_question called on it *)

\* the vector store the chain was built on: ChromaDBManager, whose
\* hybrid_search has the parameters (query, n_results, alpha) and which has
\* no get_document_chunks, or a store that has both as the chain calls them
StoreKinds == {"ChromaDBManager", "filtering"}

\* self.translator: None, a translator with client.chat (and model), or one
\* with model alone
TranslatorKinds == {"none", "openai", "gemini"}

AskedQuestions == { <<"what", "title">>, <<"what", "method">> }

\* document_id: None or an id
DocumentIds == { <<>>, <<"doc1">> }

DefaultMaxSources == 5

DeepContextSources == 3

HypotheticalAnswer == <<"hypothetical", "answer">>

\* the two chunks of the store
StoreChunk(id) ==
    IF id = 1
    THEN [chunk_id |-> 1, words |-> {"what", "title"}, text_length |-> 50,
          page |-> 0, chunk_type |-> "title", chunk_index |-> 0, final_score |-> 0]
    ELSE [chunk_id |-> id, words |-> {"method"}, text_length |-> 500,
          page |-> 0, chunk_type |-> "content", chunk_index |-> 1, final_score |-> 0]

Hit(id, score) == [StoreChunk(id) EXCEPT !.final_score = score]

\* what a hybrid search of the store returns, best first
SearchAnswers == { <<>>, <<Hit(1, 5)>>, <<Hit(2, 9), Hit(1, 5)>> }

\* the text a neighbouring chunk adds
SurroundingLengths == {0, 100}

\* _generate_hypothetical_answer: how the LLM call can end for a translator
HydeOutcomes(translator) ==
    IF translator = "none" THEN {"no_llm"} ELSE {"ok", "raises"}

\* the query of the second search
HydeQuery(question, outcome) ==
    IF outcome = "ok" THEN HypotheticalAnswer ELSE question

SearchCall(query, max_sources, alpha, document_id) ==
    [query |-> query, n_results |-> max_sources * 2, alpha |-> alpha,
     filter_metadata |-> document_id]

\* _add_surrounding_context: the text grows, the original text is kept
AddSurroundingContext(chunks, document_id, extra) ==
    IF document_id = <<>> \/ chunks = <<>> THEN chunks
    ELSE [ i \in DOMAIN chunks |->
             [chunks[i] EXCEPT !.text_length = @ + extra] ]

\* _retrieve_pdf_knowledge: the sources it returns, the searches it issued and
\* what the store holds for the two queries (results1, results2)
RetrievePdfKnowledge(vector_store, question, document_id, max_sources, hyde, results1, results2, extra) ==
    LET first == SearchCall(question, max_sources, 5, document_id)
        second == SearchCall(HydeQuery(question, hyde), max_sources, 7, document_id)
    IN  IF vector_store = "ChromaDBManager"
        THEN \* TypeError: unexpected keyword argument 'filter_metadata'
             [sources |-> <<>>, hyde |-> hyde, searches |-> <<first>>,
              answers |-> <<results1, results2>>]
        ELSE LET candidate_results ==
                     MergeSearchResults(results1, results2, max_sources * 3)
                 enriched_results ==
                     AddSurroundingContext(Take(candidate_results, max_sources * 2),
                                           document_id, extra)
             IN  [sources |-> RerankResults(question, enriched_results, max_sources),
                  hyde |-> hyde, searches |-> <<first, second>>,
                  answers |-> <<results1, results2>>]

\* every way one _retrieve_pdf_knowledge can go
Retrievals(chain, question, document_id, max_sources) ==
    { RetrievePdfKnowledge(chain.vector_store, question, document_id,
                           max_sources, hyde, r1, r2, extra) :
        hyde \in HydeOutcomes(chain.translator), r1 \in SearchAnswers,
        r2 \in SearchAnswers, extra \in SurroundingLengths }

WebSources == [url : {1, 2}, source_type : {"wikipedia"}]

\* what research_topic returns
WebAnswers == { <<>>, <<[url |-> 1, source_type |-> "wikipedia"]>>,
                <<[url |-> 1, source_type |-> "wikipedia"],
                  [url |-> 2, source_type |-> "wikipedia"]>> }

\* _generate_template_answer
TemplateAnswer(question, pdf_sources, web_sources) ==
    [kind |-> "template", question |-> question,
     pdf |-> [ i \in 1..Min(2, Len(pdf_sources)) |->
                 [page |-> pdf_sources[i].page, text |-> pdf_sources[i].chunk_id] ],
     web |-> [ i \in 1..Min(2, Len(web_sources)) |-> web_sources[i] ]]

LlmAnswer == [kind |-> "llm"]

Unable == [kind |-> "Unable to generate answer with LLM."]

\* _generate_with_llm: how the call can end for a translator
LlmOutcomes(translator) ==
    IF translator = "none" THEN {"no_llm"}
    ELSE IF translator = "openai" THEN {"ok", "raises"}
    ELSE {"unusable"}

\* _generate_answer
GenerateAnswerText(question, pdf_sources, web_sources, llm) ==
    IF llm = "ok" THEN LlmAnswer
    ELSE IF llm = "unusable" THEN Unable
    ELSE TemplateAnswer(question, pdf_sources, web_sources)

\* _create_pdf_references
PdfReferences(pdf_sources) ==
    [ i \in DOMAIN pdf_sources |->
        [type |-> "pdf", page |-> pdf_sources[i].page,
         chunk_id |-> pdf_sources[i].chunk_id,
         confidence |-> IF "similarity_score" \in DOMAIN pdf_sources[i]
                        THEN pdf_sources[i].similarity_score ELSE 0] ]

\* _create_web_references
WebReferences(web_sources) ==
    [ i \in DOMAIN web_sources |->
        [type |-> "web", url |-> web_sources[i].url,
         source_type |-> web_sources[i].source_type] ]

\* the dict of lines 153-164
StandardResult(answer, pdf_sources, web_sources) ==
    [answer |-> answer,
     pdf_references |-> PdfReferences(pdf_sources),
     web_references |-> WebReferences(web_sources),
     quality_metrics |-> [total_sources |-> Len(pdf_sources) + Len(web_sources)],
     processing_time |-> "elapsed",
     sources_used |-> [pdf_sources |-> Len(pdf_sources),
                       web_sources |-> Len(web_sources)],
     timestamp |-> "now"]

\* the dict of lines 171-177
ErrorResult(e) ==
    [answer |-> [kind |-> "error", error |-> e],
     pdf_references |-> <<>>, web_references |-> <<>>,
     quality_metrics |-> [confidence |-> 0, completeness |-> 0],
     error |-> e]

\* what deep_search returns: an answer, the papers and the local papers
DeepSearchResults == [answer : {"deep"}, papers : 0..1, local_papers : 0..1]

\* the dict of lines 543-561
DeepResult(deep_result) ==
    [answer |-> deep_result.answer,
     pdf_references |-> [ i \in 1..deep_result.local_papers |-> [source |-> "Local ChromaDB"] ],
     web_references |-> [ i \in 1..deep_result.papers |-> [source |-> "paper"] ],
     deep_search_result |-> deep_result,
     quality_metrics |-> [confidence |-> 9,
                          total_papers |-> deep_result.papers + deep_result.local_papers],
     processing_time |-> "elapsed",
     sources_used |-> [pdf_sources |-> deep_result.local_papers,
                       academic_papers |-> deep_result.papers],
     timestamp |-> "now",
     search_type |-> "deep_search"]


Chains == [vector_store : StoreKinds, translator : TranslatorKinds,
           deep_search_engine : BOOLEAN]

RagArgs ==
    [question : AskedQuestions, document_id : DocumentIds,
     include_web_research : BOOLEAN, max_pdf_sources : {1},
     max_web_sources : {1}, use_deep_search : BOOLEAN]

NoArgs == <<>>

NoResult == <<>>

\* the chain before a call
RagIdle(chain) ==
    [pc |-> "idle", chain |-> chain, asked |-> NoArgs, args |-> NoArgs,
     depth |-> 0, pdf_sources |-> <<>>, web_sources |-> <<>>,
     answer |-> <<>>, log |-> <<>>, ret |-> NoResult]

\* one entry of the log: what the invocation at `depth` called, and how it went
Logged(r, entry) == Append(r.log, [entry EXCEPT !.depth = r.depth])

RetrievalEntry(rt, max_sources) ==
    [op |-> "_retrieve_pdf_knowledge", depth |-> 0, max_sources |-> max_sources,
     hyde |-> rt.hyde, searches |-> rt.searches, answers |-> rt.answers,
     sources |-> rt.sources]

CallEntry(op, outcome) == [op |-> op, depth |-> 0, outcome |-> outcome]

\* a fallback that hands back what the deep search had put together
FallbackPartial(r) ==
    [r EXCEPT !.pc = "done",
              !.ret = [answer |-> "deep", pdf_references |-> <<>>,
                       web_references |-> <<>>,
                       search_type |-> "deep_search"]]

\* lines 567-575: return await self.answer_question(question, document_id,
\*                    include_web_research=True, use_deep_search=False)
Fallback(r) ==
    [r EXCEPT !.pc = "retrieve",
              !.depth = @ + 1,
              !.args = [question |-> r.args.question,
                        document_id |-> r.args.document_id,
                        include_web_research |-> TRUE,
                        max_pdf_sources |-> DefaultMaxSources,
                        max_web_sources |-> DefaultMaxSources,
                        use_deep_search |-> FALSE],
              !.pdf_sources = <<>>, !.web_sources = <<>>, !.answer = <<>>]

\* a call of a collaborator raises, or returns one of `values`
Outcomes(values) ==
    {[raises |-> TRUE, value |-> <<>>]}
        \cup { [raises |-> FALSE, value |-> v] : v \in values }

RagStep(r) ==
    /\ rag' = r
    /\ UNCHANGED <<fn, dsVars, selVars, rlVars, apiVars, cacheVars, graphVars>>

\* lines 117-126: the call and the choice of the path
AnswerQuestion ==
    /\ rag.pc = "idle"
    /\ \E a \in RagArgs :
          RagStep([rag EXCEPT
              !.asked = a, !.args = a,
              !.pc = IF a.use_deep_search /\ rag.chain.deep_search_engine
                     THEN "deep_search" ELSE "retrieve"])

\* _answer_with_deep_search
AnswerWithDeepSearch ==
    /\ rag.pc = "deep_search"
    /\ LET a == rag.args
           context == IF a.document_id = <<>> THEN {<<>>}
                      ELSE { <<RetrievalEntry(rt, DeepContextSources)>> :
                               rt \in Retrievals(rag.chain, a.question,
                                                 a.document_id, DeepContextSources) }
       IN  \E pre \in context, outcome \in Outcomes(DeepSearchResults) :
              LET r1 == [rag EXCEPT !.log =
                           rag.log \o pre
                             \o <<CallEntry("deep_search",
                                            IF outcome.raises THEN "raises" ELSE "ok")>>]
              IN  IF outcome.raises
                  THEN RagStep(Fallback(r1))
                  ELSE RagStep([r1 EXCEPT !.pc = "done",
                                          !.ret = DeepResult(outcome.value)])

\* lines 130-132
RetrieveKnowledge ==
    /\ rag.pc = "retrieve"
    /\ \E rt \in Retrievals(rag.chain, rag.args.question, rag.args.document_id,
                            rag.args.max_pdf_sources) :
          RagStep([rag EXCEPT
              !.pdf_sources = rt.sources,
              !.log = Logged(rag, RetrievalEntry(rt, rag.args.max_pdf_sources)),
              !.pc = "web"])

\* lines 135-139, and the handler of lines 169-177 when research_topic raises
WebResearch ==
    /\ rag.pc = "web"
    /\ IF ~rag.args.include_web_research
       THEN RagStep([rag EXCEPT !.pc = "generate"])
       ELSE \E outcome \in Outcomes(WebAnswers) :
              IF outcome.raises
              THEN RagStep([rag EXCEPT
                       !.log = Logged(rag, CallEntry("research_topic", "raises")),
                       !.pc = "done",
                       !.ret = ErrorResult("research_topic")])
              ELSE RagStep([rag EXCEPT
                       !.log = Logged(rag, CallEntry("research_topic", "ok")),
                       !.web_sources = Take(outcome.value, rag.args.max_web_sources),
                       !.pc = "generate"])

\* line 142
GenerateAnswer ==
    /\ rag.pc = "generate"
    /\ \E llm \in LlmOutcomes(rag.chain.translator) :
          RagStep([rag EXCEPT
              !.answer = GenerateAnswerText(rag.args.question, rag.pdf_sources,
                                            rag.web_sources, llm),
              !.log = Logged(rag, CallEntry("_generate_answer", llm)),
              !.pc = "references"])

\* lines 145-167
ReturnResult ==
    /\ rag.pc = "references"
    /\ RagStep([rag EXCEPT
           !.ret = StandardResult(rag.answer, rag.pdf_sources, rag.web_sources),
           !.pc = "done"])

InitRag ==
    /\ \E chain \in Chains : rag = RagIdle(chain)
    /\ fn = [name |-> "off"]
    /\ dsIdle /\ selIdle /\ rlIdle /\ apiIdle /\ cacheIdle /\ graphIdle

NextRag ==
    \/ AnswerQuestion
    \/ AnswerWithDeepSearch
    \/ RetrieveKnowledge
    \/ WebResearch
    \/ GenerateAnswer
    \/ ReturnResult

SpecRag == InitRag /\ [][NextRag]_vars

RequiredKeys ==
    {"answer", "pdf_references", "web_references", "quality_metrics",
     "processing_time", "sources_used", "search_type"}

Returned == rag.pc = "done"

\* C25: every value answer_question returns, on the standard path, the
\* deep-search path and the error path, is a dict with all of the keys
\* answer, pdf_references, web_references, quality_metrics, processing_time,
\* sources_used and search_type; and every call returns.
C25_StableDict ==
    /\ rag.pc \in {"off", "idle", "deep_search", "retrieve", "web", "generate",
                   "references", "done"}
    /\ Returned => RequiredKeys \subseteq DOMAIN rag.ret


\* the entries of the log for calls of `op` made by the invocation at `depth`
Entries(op, depth) ==
    { i \in DOMAIN rag.log : rag.log[i].op = op /\ rag.log[i].depth = depth }

DeepSearchRaised ==
    \E i \in Entries("deep_search", 0) : rag.log[i].outcome = "raises"

\* C26: when use_deep_search is set and deep_search raises, answer_question
\* returns the result of exactly one standard-path run for the same question
\* and document: deep_search is called once and not again, one retrieval and
\* at most one web research and one synthesis follow it, the value returned
\* is the dict that run built from its own sources (or its error dict), and
\* it holds no deep_search_result and no search_type.
C26_FallbackIsOneStandardRun ==
    /\ rag.pc # "off" => rag.depth <= 1
    /\ (Returned /\ DeepSearchRaised) =>
          /\ rag.asked.use_deep_search
          /\ Cardinality(Entries("deep_search", 0)) = 1
          /\ Entries("deep_search", 1) = {}
          /\ rag.depth = 1
          /\ rag.args.question = rag.asked.question
          /\ rag.args.document_id = rag.asked.document_id
          /\ ~rag.args.use_deep_search
          /\ Cardinality(Entries("_retrieve_pdf_knowledge", 1)) = 1
          /\ \A i \in Entries("_retrieve_pdf_knowledge", 1) :
                /\ rag.log[i].searches[1].query = rag.asked.question
                /\ rag.log[i].max_sources = DefaultMaxSources
          /\ Cardinality(Entries("research_topic", 1)) = 1
          /\ Entries("research_topic", 0) = {} /\ Entries("_generate_answer", 0) = {}
          /\ IF Entries("_generate_answer", 1) = {}
             THEN rag.ret = ErrorResult("research_topic")
             ELSE /\ Cardinality(Entries("_generate_answer", 1)) = 1
                  /\ rag.ret = StandardResult(rag.answer, rag.pdf_sources,
                                              rag.web_sources)
          /\ "deep_search_result" \notin DOMAIN rag.ret
          /\ "search_type" \notin DOMAIN rag.ret

\* a deep search over a document raised after the retrieval of its context,
\* and the fallback returned an answer with a PDF and a web reference
C26_Witness ==
    /\ Returned /\ DeepSearchRaised
    /\ Entries("_retrieve_pdf_knowledge", 0) # {}
    /\ "error" \notin DOMAIN rag.ret
    /\ rag.ret.pdf_references # <<>>
    /\ rag.ret.web_references # <<>>
    /\ ~rag.asked.include_web_research

LlmFailed(outcome) == outcome \in {"no_llm", "raises"}

\* C27: a failure of the LLM never fails the standard path. When the
\* hypothetical answer cannot be generated (the call raises, or there is no
\* LLM), the retrieval issues its two searches and the second has the raw
\* question as its query. When the synthesis fails (the call raises, or there
\* is no LLM), answer_question returns the template answer built from the
\* retrieved sources, with the references of those sources. An error dict is
\* returned only when the web research raised.
C27_LlmFailuresTolerated ==
    rag.pc # "off" =>
    /\ \A i \in DOMAIN rag.log :
          (rag.log[i].op = "_retrieve_pdf_knowledge" /\ LlmFailed(rag.log[i].hyde))
            => /\ Len(rag.log[i].searches) = 2
               /\ rag.log[i].searches[2].query = rag.asked.question
    /\ \A i \in DOMAIN rag.log :
          (Returned /\ rag.log[i].op = "_generate_answer"
                    /\ LlmFailed(rag.log[i].outcome))
            => rag.ret = StandardResult(
                            TemplateAnswer(rag.asked.question, rag.pdf_sources,
                                           rag.web_sources),
                            rag.pdf_sources, rag.web_sources)
    /\ (Returned /\ "error" \in DOMAIN rag.ret)
          => \E i \in DOMAIN rag.log :
                rag.log[i].op = "research_topic" /\ rag.log[i].outcome = "raises"


----------------------------------------------------------------------------
(* Progress reports of deep_search, checked under Spec *)

\* the dict handed to the callback with each progress value
Checkpoint(progress) ==
    CASE progress = 5   -> [stage |-> "local_search", progress |-> 5]
      [] progress = 15  -> [hop |-> 0, hop_stage |-> "searching", progress |-> 15]
      [] progress = 33  -> [hop |-> 0, hop_stage |-> "completed", progress |-> 33]
      [] progress = 40  -> [hop |-> 1, hop_stage |-> "searching", progress |-> 40]
      [] progress = 66  -> [hop |-> 1, hop_stage |-> "completed", progress |-> 66]
      [] progress = 70  -> [hop |-> 2, hop_stage |-> "searching", progress |-> 70]
      [] progress = 85  -> [hop |-> 2, hop_stage |-> "completed", progress |-> 85]
      [] progress = 90  -> [hop_stage |-> "synthesizing", progress |-> 90]
      [] progress = 100 -> [hop_stage |-> "completed", progress |-> 100]

Reports == [ i \in DOMAIN reported |-> Checkpoint(reported[i]) ]

IsHopReport(report, stage) ==
    "hop" \in DOMAIN report /\ report.hop_stage = stage

\* the reports are optional and in order: none without a callback, every
\* value in 0..100, strictly increasing, 'completed' of a hop right after
\* the 'searching' of that hop, 100 at most once
OrderedReports ==
    /\ (pc # "off" /\ args # <<>> /\ ~args.progress_callback) => reported = <<>>
    /\ \A i \in DOMAIN reported : reported[i] \in 0..100
    /\ \A i, j \in DOMAIN reported : i < j => reported[i] < reported[j]
    /\ \A j \in DOMAIN reported :
          IsHopReport(Reports[j], "completed")
            => /\ j > 1
               /\ IsHopReport(Reports[j - 1], "searching")
               /\ Reports[j - 1].hop = Reports[j].hop
    /\ Cardinality({ i \in DOMAIN reported : reported[i] = 100 }) <= 1

\* C30: progress reporting is optional and ordered: without a callback no
\* report is made and the run returns its result all the same; with a
\* callback every value lies in 0..100, the values are strictly increasing
\* whatever the hop flags and max_hops, the 'completed' report of a hop
\* follows its 'searching' report, and 100 is reported once, on a run that
\* then returns a result, and on no other.
C30_ProgressOrdered ==
    /\ OrderedReports
    /\ (\E i \in DOMAIN reported : reported[i] = 100)
          => (pc = "done" /\ result # <<>>)
    /\ (pc = "done" /\ args.progress_callback)
          => (\E i \in DOMAIN reported : reported[i] = 100)


----------------------------------------------------------------------------
(* Hop 0 and the manager it is wired to, checked under Spec *)

\* the search_all call of the run (hop 0 issues the only one)
SearchAll == calls[CHOOSE i \in DOMAIN calls : calls[i].method = "search_all"]

\* C31: hop 0 calls search_all once with the question followed by the
\* extracted concepts and a limit of 2 x max_papers_per_hop; the papers the
\* call returns are the candidates that are scored, diversely selected and
\* marked visited; and with the engine wired to AcademicAPIManager, a manager
\* that has papers for the query gives a non-empty hop-0 selection.
C31_Hop0SearchesManager ==
    HopRan(0) =>
        /\ Cardinality(CallsOf("search_all")) = 1
        /\ SearchAll.query = Query(args.question, ExtractKeyConcepts(args.question))
        /\ SearchAll.limit = 2 * max_papers_per_hop
        /\ HopPapers(0) = SelectDiversePapers(
                              ScorePapers(SearchAll.returned,
                                          ExtractKeyConcepts(args.question)),
                              max_papers_per_hop)
        /\ Ids(HopPapers(0)) \subseteq visited_papers
        /\ (manager = "AcademicAPIManager" /\ SearchAll.found # <<>>)
              => HopPapers(0) # <<>>


\* the _retrieve_pdf_knowledge call the standard path made last
LastRetrieval ==
    rag.log[CHOOSE i \in DOMAIN rag.log :
              /\ rag.log[i].op = "_retrieve_pdf_knowledge"
              /\ \A j \in DOMAIN rag.log :
                    rag.log[j].op = "_retrieve_pdf_knowledge" => j <= i]

\* answer_question returned the dict of its standard path
StandardReturned ==
    /\ rag.pc = "done"
    /\ "sources_used" \in DOMAIN rag.ret
    /\ "search_type" \notin DOMAIN rag.ret

OnStandardPath == rag.pc \in {"web", "generate", "references"} \/ StandardReturned

\* C32: the standard path issues exactly two hybrid searches, the raw question
\* at alpha 0.5 and then the hypothetical answer at alpha 0.7, each for
\* 2 x max_sources results of the requested document; what they return is
\* merged, cut, enriched and re-ranked into the sources; and on a chain wired
\* to ChromaDBManager non-empty search results give non-empty pdf_references.
C32_DualHybridSearch ==
    OnStandardPath =>
      LET e == LastRetrieval
          m == rag.args.max_pdf_sources
      IN  /\ Len(e.searches) = 2
          /\ e.searches[1] = SearchCall(rag.args.question, m, 5, rag.args.document_id)
          /\ e.searches[2] = SearchCall(HydeQuery(rag.args.question, e.hyde), m, 7,
                                        rag.args.document_id)
          /\ \A i \in DOMAIN e.sources :
                \E j \in 1..2 : \E k \in 1..Len(e.answers[j]) :
                    e.answers[j][k].chunk_id = e.sources[i].chunk_id
          /\ (e.answers[1] # <<>> \/ e.answers[2] # <<>>) => e.sources # <<>>
          /\ (rag.chain.vector_store = "ChromaDBManager" /\ StandardReturned
                /\ (e.answers[1] # <<>> \/ e.answers[2] # <<>>))
               => rag.ret.pdf_references # <<>>


----------------------------------------------------------------------------
(* The hop selections and the visited set, checked under Spec *)

\* the paper_ids of all recorded hop selections
SelectedIds == UNION { Ids(Hops[i].papers) : i \in DOMAIN Hops }

----------------------------------------------------------------------------
(* The seeds of hop 2, checked under Spec *)

\* the paper_ids hop 2 asked get_cited_by for, in the order of the requests
CitedByRequests ==
    LET cited == SelectSeq(calls, LAMBDA call : call.method = "get_cited_by")
    IN  [ i \in DOMAIN cited |-> cited[i].paper_id ]

Hop0Ids == [ i \in DOMAIN HopPapers(0) |-> HopPapers(0)[i].paper_id ]

\* hop 2 ran exactly when its three conditions held, whatever hop 1 did, and
\* with recent_papers_only every paper of hop 2 is inside the recency window
Hop2GateAndWindow ==
    /\ Hop2Decided =>
          (HopRan(2) <=> (/\ OrDefault(args.max_hops, settings.max_hops) >= 3
                          /\ settings.follow_cited_by
                          /\ HopPapers(0) # <<>>))
    /\ (HopRan(2) /\ settings.recent_papers_only) =>
          \A i \in DOMAIN HopPapers(2) :
              HopPapers(2)[i].year >= CurrentYear - settings.recent_years_threshold

\* C34: hop 2 is seeded by the hop-0 selection only: it requests
\* cited-by for each hop-0 paper and for no hop-1 paper; it runs whenever
\* max_hops >= 3, follow_cited_by is on and hop 0 is non-empty, whether hop 1
\* ran, was skipped or returned nothing; with recent_papers_only every hop-2
\* paper has year >= current year - recent_years_threshold.
C34_SeededByEachHop0Paper ==
    /\ Hop2GateAndWindow
    /\ HopRan(2) => CitedByRequests = Hop0Ids

\* what holds of the seeds: the requests follow the hop-0 papers in order and
\* stop at the first request that raises, in which case hop 2 is recorded with
\* no papers; otherwise every hop-0 paper is asked for. No hop-1 paper is ever
\* asked for.
SeededByHop0 ==
    /\ Hop2GateAndWindow
    /\ ~HopRan(2) => CitedByRequests = <<>>
    /\ HopRan(2) =>
          /\ CitedByRequests = Take(Hop0Ids, Len(CitedByRequests))
          /\ CitedByRequests # <<>>
          /\ (CitedByRequests = Hop0Ids \/ HopPapers(2) = <<>>)
          /\ HopRan(1) => \A i \in DOMAIN CitedByRequests :
                             CitedByRequests[i] \notin Ids(HopPapers(1))


----------------------------------------------------------------------------
(* SpecCacheRace: get() and set() of several connections on one store.  A   *)
(* set() is one transaction (lines 178-189).  A get() is two: its SELECT    *)
(* runs outside a transaction, and the DELETE of an expired row opens one   *)
(* of its own (lines 80-102), so a set() of another thread or process can   *)
(* commit between the two statements.                                       *)

MaxReaders == 2   \* get() calls in progress at one time

Key(id, src) == [paper_id |-> id, source |-> src, title |-> <<>>]

\* lines 80-93 and 105-120: the SELECT, then a miss, a hit, or an expired row
\* that is to be deleted
GetSelect ==
    /\ CacheReady
    /\ Cardinality(getting) < MaxReaders
    /\ \E id \in CacheIds, src \in CacheSources :
         LET rows == SelectRows(store, id, src)
             row == CHOOSE r \in rows : TRUE
         IN  /\ Key(id, src) \notin getting
             /\ IF rows # {} /\ Expired(row, clock)
                THEN /\ getting' = getting \cup {Key(id, src)}
                     /\ UNCHANGED cache_log
                ELSE /\ cache_log' = Append(cache_log,
                           Entry("get", Key(id, src), FALSE,
                                 IF rows = {} THEN <<>> ELSE <<DataOf(row)>>))
                     /\ UNCHANGED getting
    /\ UNCHANGED <<ttl_days, store, clock, dsVars, selVars, rlVars, apiVars,
                   graphVars, ragVars>>

\* lines 96-102: DELETE FROM papers WHERE paper_id = ? AND source = ?, commit,
\* return None; a storage error rolls the DELETE back
GetPurge ==
    /\ \E g \in getting, fail \in BOOLEAN :
         /\ getting' = getting \ {g}
         /\ store' = IF fail THEN store
                     ELSE store \ SelectRows(store, g.paper_id, g.source)
         /\ cache_log' = Append(cache_log, Entry("get", g, fail, <<>>))
    /\ UNCHANGED <<ttl_days, clock, dsVars, selVars, rlVars, apiVars,
                   graphVars, ragVars>>

NextRace ==
    \/ GetSelect
    \/ GetPurge
    \/ CacheSet
    \/ CacheTick

SpecCacheRace == InitCache /\ [][NextRace]_vars

\* the set() calls that returned True and were not followed by a set() of the
\* same paper_id, with the row each of them wrote
LastWrites ==
    { i \in DOMAIN cache_log :
        /\ cache_log[i].op = "set" /\ cache_log[i].result = <<TRUE>>
        /\ \A j \in DOMAIN cache_log :
              (j > i /\ cache_log[j].op = "set" /\ cache_log[j].result = <<TRUE>>)
                 => cache_log[j].paper_id # cache_log[i].paper_id }

Written(e) == RowOf(e, e.at, ttl_days)

\* C35: concurrent readers and writers are safe: a row written by set() is
\* not deleted by the purge of a get() that ran concurrently on the same key,
\* so as long as the row has not expired it is in the store, and once every
\* get() in progress has completed a get() of the key returns its record.
C35_FreshRowSurvivesPurge ==
    \A i \in LastWrites :
        LET e == cache_log[i] IN
        ~Expired(Written(e), clock) =>
            /\ Written(e) \in store
            /\ getting = {} =>
                 GetEffect(store, e.paper_id, e.source, clock, FALSE).result
                     = <<DataOf(Written(e))>>


----------------------------------------------------------------------------
(* SpecInterleave: deep_search invoked twice on one DeepSearchEngine.  The  *)
(* search path and the hop lists are locals of each invocation (pc and      *)
(* search_path are functions of the invocation here); self.visited_papers   *)
(* belongs to the engine.  An invocation is suspended at its awaits of the  *)
(* manager, so what a hop does after its last manager call returned (filter *)
(* the unvisited, select, mark visited) is one step, and the steps of the   *)
(* two invocations interleave.                                              *)

Invocations == {1, 2}

Active(i) == pc[i].at \in {"hop0", "hop1", "hop2", "synthesis"}

HopsOf(i) == search_path[i].hops

\* the hop that follows, by the conditions of lines 277 and 307
StageFrom(stage, hop0_papers) ==
    IF stage = "hop0" /\ max_hops >= 2 /\ settings.follow_citations
                      /\ hop0_papers # <<>>
    THEN "hop1"
    ELSE IF stage \in {"hop0", "hop1"} /\ max_hops >= 3
                      /\ settings.follow_cited_by /\ hop0_papers # <<>>
         THEN "hop2"
         ELSE "synthesis"

\* a hop of the path, with the candidates its citation calls gathered
GatheredHop(n, gathered, papers) ==
    [hop_number |-> n, gathered |-> gathered, papers |-> papers]

InterleaveStep(i, at, hops, visited) ==
    /\ pc' = [pc EXCEPT ![i].at = at]
    /\ search_path' = [search_path EXCEPT ![i].hops = hops]
    /\ visited_papers' = visited
    /\ UNCHANGED <<settings, manager, args, max_hops, max_papers_per_hop,
                   all_papers, result, trace, raised, calls, reported,
                   selVars, rlVars, apiVars, cacheVars, graphVars, ragVars>>

\* a start that leaves the visited set as the engine has it
VisitedKept(visited) == visited

\* line 227: self.visited_papers.clear()
VisitedAtStart(visited) == {}

\* lines 221-246: the invocation binds its locals and clears the visited set
\* of the engine; the invocations are numbered in the order they start, and
\* one overlaps every invocation that is under way when it starts
Start(i) ==
    /\ pc[i].at = "idle"
    /\ \A j \in Invocations : j < i => pc[j].at # "idle"
    /\ pc' = [ j \in Invocations |->
                 IF j = i
                 THEN [at |-> "hop0", overlapped |-> \E k \in Invocations : Active(k)]
                 ELSE [pc[j] EXCEPT !.overlapped = @ \/ Active(j)] ]
    /\ visited_papers' = VisitedAtStart(visited_papers)
    /\ UNCHANGED <<settings, manager, args, max_hops, max_papers_per_hop,
                   search_path, all_papers, result, trace, raised, calls,
                   reported, selVars, rlVars, apiVars, cacheVars, graphVars,
                   ragVars>>

\* lines 430-458 once search_all has returned
InterleavedHop0(i) ==
    /\ pc[i].at = "hop0"
    /\ \E o \in CallOutcomes(MaxResults) :
         LET selected == IF o.raises THEN <<>>
                         ELSE SelectDiversePapers(ScorePapers(o.papers, <<>>),
                                                  max_papers_per_hop)
         IN  InterleaveStep(i, StageFrom("hop0", selected),
                            Append(HopsOf(i), GatheredHop(0, <<>>, selected)),
                            visited_papers \cup Ids(selected))

\* lines 470-504 once the last get_citations has returned
InterleavedHop1(i) ==
    /\ pc[i].at = "hop1"
    /\ \E outs \in [DOMAIN HopsOf(i)[1].papers -> CallOutcomes(MaxCitations)] :
         LET gathered == IF FirstRaise(outs) # 0 THEN <<>> ELSE Gathered(outs)
             selected == Hop1Selection(gathered)
         IN  InterleaveStep(i, StageFrom("hop1", HopsOf(i)[1].papers),
                            Append(HopsOf(i), GatheredHop(1, gathered, selected)),
                            visited_papers \cup Ids(selected))

\* lines 516-555 once the last get_cited_by has returned
InterleavedHop2(i) ==
    /\ pc[i].at = "hop2"
    /\ \E outs \in [DOMAIN HopsOf(i)[1].papers -> CallOutcomes(MaxCitations)] :
         LET gathered == IF FirstRaise(outs) # 0 THEN <<>> ELSE Gathered(outs)
             selected == Hop2Selection(gathered)
         IN  InterleaveStep(i, "synthesis",
                            Append(HopsOf(i), GatheredHop(2, gathered, selected)),
                            visited_papers \cup Ids(selected))

\* lines 337-359: the invocation returns its result
Finish(i) ==
    /\ pc[i].at = "synthesis"
    /\ InterleaveStep(i, "done", HopsOf(i), visited_papers)

\* lines 361-363: a progress callback or the synthesis raises; the visited
\* set stays as it is
Fail(i) ==
    /\ Active(i)
    /\ InterleaveStep(i, "raised", HopsOf(i), visited_papers)

InitInterleave ==
    /\ settings \in { s \in SettingsSet : ~s.recent_papers_only }
    /\ manager = "max_results"
    /\ args = <<>>
    /\ max_hops = DefaultMaxHops
    /\ max_papers_per_hop = 1
    /\ pc = [ i \in Invocations |-> [at |-> "idle", overlapped |-> FALSE] ]
    /\ search_path = [ i \in Invocations |-> EmptyPath ]
    /\ visited_papers = {}
    /\ all_papers = <<>> /\ result = <<>> /\ trace = <<>> /\ raised = {}
    /\ calls = <<>> /\ reported = <<>>
    /\ selIdle /\ rlIdle /\ otherIdle

NextInterleave ==
    \/ \E i \in Invocations : Start(i)
    \/ \E i \in Invocations : InterleavedHop0(i)
    \/ \E i \in Invocations : InterleavedHop1(i)
    \/ \E i \in Invocations : InterleavedHop2(i)
    \/ \E i \in Invocations : Finish(i)
    \/ \E i \in Invocations : Fail(i)

SpecInterleave == InitInterleave /\ [][NextInterleave]_vars


\* the paper_ids invocation i selected before its k-th hop
OwnVisited(i, k) == UNION { Ids(HopsOf(i)[j].papers) : j \in 1..(k - 1) }

\* what the k-th hop of invocation i selects when no other invocation touches
\* the visited set: hop 0 does not read it, hops 1 and 2 drop what the
\* invocation itself has selected
SelectionAlone(i, k) ==
    LET hop == HopsOf(i)[k]
        unvisited == Unvisited(RecentOnly(hop.gathered), OwnVisited(i, k))
    IN  IF hop.hop_number = 0 THEN hop.papers
        ELSE IF unvisited = <<>> THEN <<>>
        ELSE LlmSelectPapers(unvisited, max_papers_per_hop)

\* invocation i kept its hops disjoint and selected what it would have
\* selected alone
Undisturbed(i) ==
    /\ \A j, k \in DOMAIN HopsOf(i) :
          j # k => Ids(HopsOf(i)[j].papers) \cap Ids(HopsOf(i)[k].papers) = {}
    /\ \A k \in DOMAIN HopsOf(i) : HopsOf(i)[k].papers = SelectionAlone(i, k)

\* C36: two deep_search invocations interleaved on one engine do not
\* interfere through the visited set: each keeps the selections of its own
\* hops disjoint, and selects in every hop what it would have selected had
\* it run alone.
C36_InterleavedInvocationsIndependent ==
    \A i \in Invocations : Undisturbed(i)

\* the invocation that started last
Latest(i) == pc[i].at # "idle" /\ \A j \in Invocations : j > i => pc[j].at = "idle"

\* C37: sequential deep_search invocations on one engine are independent:
\* the visited set is empty when an invocation has started, also after an
\* invocation that failed, and holds what that invocation has selected from
\* then on; an invocation that overlaps no other keeps its hops disjoint and
\* selects in every hop what its own inputs and API results determine,
\* whatever earlier invocations selected.
C37_SequentialInvocationsIndependent ==
    \A i \in Invocations :
        ~pc[i].overlapped =>
            /\ Undisturbed(i)
            /\ Latest(i) => visited_papers = OwnVisited(i, Len(HopsOf(i)) + 1)

\* the first invocation failed after it had selected a paper in hop 0; the
\* second one, started afterwards, selected the same paper in hop 0 and
\* another one in hop 1, and returned
C37_Witness ==
    \E i, j \in Invocations :
        /\ pc[i].at = "raised" /\ pc[j].at = "done"
        /\ ~pc[i].overlapped /\ ~pc[j].overlapped
        /\ HopsOf(i) # <<>> /\ HopsOf(i)[1].papers # <<>>
        /\ Len(HopsOf(j)) >= 2
        /\ HopsOf(j)[1].papers = HopsOf(i)[1].papers
        /\ HopsOf(j)[2].papers # <<>>


----------------------------------------------------------------------------
(* SpecNested: tasks that enter the limiter and, inside that scope, enter   *)
(* it again: PubMedAPI.search and get_citations call fetch_details, which   *)
(* opens `async with self.rate_limiter` on the limiter of the same client.  *)
(* The event loop runs every task that can run, and time goes on.           *)

\* search -> fetch_details: two entries, one inside the other
NestingDepth == Cardinality({"search", "fetch_details"})

EntriesOf(t) == Cardinality({ i \in DOMAIN order : order[i] = t })

\* academic_apis.py:110 and 129-131: inside the scope of its first entry the
\* task calls fetch_details, which enters the limiter again
NestedEntry(t) ==
    /\ tpc[t] = "entered"
    /\ EntriesOf(t) < NestingDepth
    /\ tpc' = [tpc EXCEPT ![t] = "start"]
    /\ UNCHANGED <<requests_per_second, min_interval, last_request, lock,
                   waiters, now, wake_at, done_at, order,
                   dsVars, selVars, apiVars, cacheVars, graphVars, ragVars>>

\* time.time() moves on: freely for one interval, so that a task can arrive
\* early or late, and after that for as long as a task sleeps
NestedTick ==
    /\ \/ now < TicksPerSecond + min_interval
       \/ \E t \in Tasks : tpc[t] = "sleeping" /\ wake_at[t] > now
    /\ now' = now + 1
    /\ UNCHANGED <<requests_per_second, min_interval, last_request, lock,
                   waiters, tpc, wake_at, done_at, order,
                   dsVars, selVars, apiVars, cacheVars, graphVars, ragVars>>

NextNested ==
    \/ NestedTick
    \/ \E t \in Tasks : EnterLock(t)
    \/ \E t \in Tasks : AcquireLock(t)
    \/ \E t \in Tasks : CheckInterval(t)
    \/ \E t \in Tasks : WakeUp(t)
    \/ \E t \in Tasks : NestedEntry(t)

SpecNested ==
    /\ InitLimiter
    /\ [][NextNested]_vars
    /\ WF_vars(NestedTick)
    /\ \A t \in Tasks :
          /\ WF_vars(EnterLock(t))
          /\ WF_vars(AcquireLock(t))
          /\ WF_vars(CheckInterval(t))
          /\ WF_vars(WakeUp(t))

\* the mutex is held by the task whose entry is being timed, and by no task
\* that is inside the protected scope or waiting
MutexOnlyWhileTimed ==
    /\ \A t \in Tasks : lock = t <=> tpc[t] \in {"locked", "sleeping"}
    /\ lock \in Tasks \cup {0}

\* C38: an operation that enters its rate limiter and, still inside that
\* scope, calls an operation that enters the same limiter never deadlocks,
\* for the NumTasks concurrent callers: the mutex is held only while an
\* entry is being timed, and every caller that has begun an entry, the outer
\* or the nested one, is eventually admitted.
C38_NestedEntryAdmitted ==
    /\ []MutexOnlyWhileTimed
    /\ \A t \in Tasks : (tpc[t] # "entered") ~> (tpc[t] = "entered")

\* every task has made its nested entry, and one of them had to queue behind
\* a task that was sleeping with the mutex
C38_Witness ==
    /\ \A t \in Tasks : EntriesOf(t) = NestingDepth /\ tpc[t] = "entered"
    /\ requests_per_second > 0
    /\ \E t \in Tasks : wake_at[t] > 0


----------------------------------------------------------------------------
(* Visited tracking of the CitationGraph, under SpecGraph *)

\* the visited set holds ids of nodes only, and a node's flag is set exactly
\* when its id is in the set
VisitedConsistent ==
    /\ g_visited \subseteq DOMAIN nodes
    /\ \A id \in DOMAIN nodes : nodes[id].visited <=> id \in g_visited

\* what one operation does to the visited set
VisitedStep ==
    /\ graph_ret'.op = "mark_visited" /\ graph_ret'.args[1] \notin DOMAIN nodes
          => nodes' = nodes /\ graph' = graph /\ g_visited' = g_visited
    /\ graph_ret'.op = "mark_visited" /\ graph_ret'.args[1] \in DOMAIN nodes
          => g_visited' = g_visited \cup {graph_ret'.args[1]}
    /\ graph_ret'.op # "clear" => g_visited \subseteq g_visited'
    /\ graph_ret'.op = "clear"
          => nodes' = <<>> /\ graph' = EmptyGraph /\ g_visited' = {}

\* C39: after any sequence of operations the visited set is a subset of the
\* node ids and a node's visited flag is true iff its id is in the visited
\* set; mark_visited of an unknown id changes nothing; a visited paper stays
\* visited through every operation but clear(); clear() leaves nodes, edges
\* and visited all empty.
C39_VisitedMonotonic == []VisitedConsistent /\ [][VisitedStep]_vars

\* mark_visited was called with an id the graph does not hold, while the
\* graph holds a visited paper that has a citation
C39_Witness ==
    /\ graph_ret.op = "mark_visited"
    /\ graph_ret.args[1] \notin DOMAIN nodes
    /\ g_visited # {}
    /\ graph.edge # {}


----------------------------------------------------------------------------
(* The hops of the search path and the lines of the answer that count them *)

\* the counts the answer gives under a label
Labelled(answer, label) ==
    { answer[k][2] : k \in { j \in DOMAIN answer : answer[j][1] = label } }

\* the number of papers of the hop recorded with hop_number n, none when no
\* such hop was recorded
SizeOfHop(path, n) ==
    LET at == { i \in DOMAIN path.hops : path.hops[i].hop_number = n }
    IN  IF at = {} THEN Len(<<>>)
        ELSE Len(path.hops[CHOOSE i \in at : TRUE].papers)

HopNumbersIncrease ==
    \A i, j \in DOMAIN search_path.hops :
        i < j => search_path.hops[i].hop_number < search_path.hops[j].hop_number

RecentDevelopmentsIsHop2 ==
    result # <<>> =>
        \A n \in Labelled(result[1].answer, "Recent developments") :
            n = SizeOfHop(result[1].search_path, 2)

FoundationalWorkIsHop1 ==
    result # <<>> =>
        \A n \in Labelled(result[1].answer, "Foundational work") :
            n = SizeOfHop(result[1].search_path, 1)

\* C40: hop_number is strictly increasing along search_path.hops, and in the
\* synthesized answer the count labelled "Foundational work" is the size of
\* the backward-citation hop (hop_number 1) and the count labelled "Recent
\* developments" the size of the forward-citation hop (hop_number 2), for
\* every combination of follow_citations, follow_cited_by and max_hops.
C40_HopsKeepIdentity ==
    /\ HopNumbersIncrease
    /\ FoundationalWorkIsHop1
    /\ RecentDevelopmentsIsHop2

====
